---- MODULE Spec2Model ----
(***************************************************************************)
(* openclaw-guardian: the decision gate between an agent's tool call and   *)
(* its execution.  The model covers the before_tool_call handler (risk     *)
(* scoring, trust budget, guardian voting, audit log), the blacklist       *)
(* matcher and the LLM intent voter.                                        *)
(*                                                                         *)
(* Text is modelled as a sequence of tokens.  A token stands for a piece   *)
(* of command text; the operators below say which regular expressions of   *)
(* the source that piece of text matches.                                   *)
(***************************************************************************)
EXTENDS Integers, Sequences, FiniteSets, TLC

VARIABLES
    policies,               \* the Policies document loaded by setup()
    consecutiveApprovals,   \* trustState.consecutiveApprovals
    lastHash,               \* audit-log.ts: let lastHash
    logFile,                \* the persisted JSONL audit store, one entry per line
    storageOk,              \* whether appendFileSync on the audit store succeeds
    now,                    \* the clock read by new Date() in writeAuditEntry
    hPc,                    \* position of the before_tool_call handler
    event,                  \* the event {toolName, params} handed to the handler
    risk,                   \* const risk = assessRisk(...)
    effectiveRisk,          \* let effectiveRisk
    rvPc,                   \* position of runVoting
    rvArgs,                 \* runVoting's arguments risk, toolName, params
    selectedGuardians,      \* runVoting: GUARDIANS.slice(0, votingConfig.guardians)
    llmCalls,               \* per selected guardian: state of its evaluateGuardian task
    votes,                  \* runVoting: const votes (in order of completion)
    rejectCount,            \* runVoting: let rejectCount
    result,                 \* the VoteResult returned by runVoting
    decision,               \* what the handler returned to the host
    auditEntry,             \* the AuditEntry returned by writeAuditEntry
    ncalls,                 \* number of host invocations so far
    llmReady,               \* llm-voter.ts: let llmReady
    mvPc,                   \* position of singleVote / multiVote
    mvArgs,                 \* multiVote's count and threshold
    mvCalls,                \* per voter: state of its callLLM promise
    mvResult,               \* the VoteResult returned by singleVote / multiVote
    handlers,               \* per concurrent before_tool_call invocation: its locals
    lostEntries,            \* entries writeAuditEntry returned but could not store
    logExists,              \* the audit log file exists
    verifyResult,           \* what verifyAuditChain returned for the store as it is
    tamperedAt,             \* line of the store altered from outside (0: none)
    blCommand,              \* the text handed to the blacklist matcher
    blPc,                   \* which matcher function has been applied to blCommand
    blMatch,                \* the BlacklistMatch returned by checkExecBlacklist
    ruleMatch               \* the BlacklistMatch returned by matchRules

vars == << policies, consecutiveApprovals, lastHash, logFile, storageOk, now, hPc, event,
           risk, effectiveRisk, rvPc, rvArgs, selectedGuardians, llmCalls,
           votes, rejectCount, result, decision, auditEntry, ncalls,
           llmReady, mvPc, mvArgs, mvCalls, mvResult, handlers, lostEntries, logExists,
           verifyResult, tamperedAt, blCommand, blPc, blMatch, ruleMatch >>

(***************************************************************************)
(* Bounds of the model.                                                     *)
(***************************************************************************)
\* The before_tool_call events the host raises in one run.
MaxCalls == 2

\* The largest number of voters multiVote is called with.
MaxVoters == 3

\* The before_tool_call invocations that are in flight at once.
MaxHandlers == 2

\* The writeAuditEntry calls made on the audit log driven directly.
MaxWrites == 3

\* The longest payload handed to a shell wrapper, and the longest text of
\* quotes, comment markers and commands, in tokens.
MaxPayload == 4
MaxText == 6

(***************************************************************************)
(* Tokens.                                                                  *)
(*   exec         the tool name "exec"                                      *)
(*   npm_install  `npm install left-pad`                                    *)
(*   pkill_node   `pkill node`                                              *)
(*   ls_tmp       `ls -la /tmp`                                             *)
(*   rm_etc       `rm -rf /etc`                                             *)
(*   rm_tmp       `rm -rf /tmp/build`                                       *)
(*   sudo_apt     `sudo apt-get upgrade`                                    *)
(*   echo         `echo`                                                    *)
(*   dq  sq       a double quote, a single quote                            *)
(*   esc_dq       `\"`, a backslash and a double quote                      *)
(*   hash         `#`                                                       *)
(*   nl           a newline                                                 *)
(***************************************************************************)
Min(S) == CHOOSE x \in S : \A y \in S : x <= y

SeqSum(s) ==
    LET RECURSIVE Go(_)
        Go(i) == IF i > Len(s) THEN 0 ELSE s[i] + Go(i + 1)
    IN Go(1)

(***************************************************************************)
(* risk-assessor.ts                                                         *)
(***************************************************************************)
\* Keywords of a policy that occur in the text of a token (String.includes).
KeywordsOf(tok) ==
    CASE tok = "rm_etc"   -> {"rm -rf"}
      [] tok = "rm_tmp"   -> {"rm -rf"}
      [] tok = "sudo_apt" -> {"sudo"}
      [] OTHER            -> {}

\* Which path list of pathRiskMultiplier the text of a token runs into.
PathClass(tok) ==
    CASE tok = "rm_etc" -> "high"
      [] tok = "rm_tmp" -> "low"
      [] tok = "ls_tmp" -> "low"
      [] OTHER          -> "none"

InspectionVerbs == {"grep", "echo", "sed"}
QuoteTokens == {"dq", "sq"}

\* flattenParams: the values of params joined; params holds the command only.
flattenParams(params) == params.command

\* Index of the first token of the line that holds position idx.
LineStart(haystack, idx) ==
    LET nls == {j \in 1..(idx - 1) : haystack[j] = "nl"}
    IN IF nls = {} THEN 1 ELSE (CHOOSE j \in nls : \A k \in nls : k <= j) + 1

\* isQuotedOrCommented(haystack, keyword) of risk-assessor.ts, with the
\* keyword given by occ, the positions of the tokens whose text holds it:
\* the first occurrence is looked at, and the text before it on the same
\* line.
isQuotedOrCommentedKw(haystack, occ) ==
    IF occ = {} THEN FALSE
    ELSE LET idx == Min(occ)
             lineStart == LineStart(haystack, idx)
             \* /(grep|echo|sed)\s+["']?[^"']*$/ on the text before idx
             verb == \E j \in lineStart..(idx - 1) :
                       /\ haystack[j] \in InspectionVerbs
                       /\ \A k \in (j + 1)..(idx - 1) :
                            haystack[k] \in QuoteTokens => k = j + 1
             \* /^\s*#/ on the text before idx
             comment == lineStart < idx /\ haystack[lineStart] = "hash"
         IN verb \/ comment

\* Math.round(x * num / den) for integers x, num and den > 0.
RoundMul(x, num, den) == (2 * x * num + den) \div (2 * den)

\* pathRiskMultiplier as the fraction << numerator, denominator >>.
pathRiskMultiplier(params) ==
    LET haystack == flattenParams(params)
        classes == {PathClass(haystack[i]) : i \in 1..Len(haystack)}
    IN IF "high" \in classes THEN << 3, 2 >>
       ELSE IF "low" \in classes THEN << 1, 2 >>
       ELSE << 1, 1 >>

\* policies.policies.find(tool === toolName) ?? find(tool === "*") ?? null;
\* null is the empty sequence, a found policy the one-element sequence.
FindToolPolicy(toolName, pol) ==
    LET exact == {i \in 1..Len(pol.policies) : pol.policies[i].tool = toolName}
        wild  == {i \in 1..Len(pol.policies) : pol.policies[i].tool = "*"}
    IN IF exact # {} THEN << pol.policies[Min(exact)] >>
       ELSE IF wild # {} THEN << pol.policies[Min(wild)] >>
       ELSE << >>

TierOfScore(score, thresholds) ==
    IF score <= thresholds.low THEN "fast"
    ELSE IF score <= thresholds.high THEN "light"
    ELSE "full"

\* A variant of the clamp without the lower end.
ClampScore_UpperOnly(score) == IF score < 100 THEN score ELSE 100

ClampScore(score) ==
    LET low == IF score < 100 THEN score ELSE 100
    IN IF low > 0 THEN low ELSE 0

\* assessRisk of the revision without dampening and path multiplier.
assessRisk_Plain(toolName, params, pol) ==
    LET toolPolicy == FindToolPolicy(toolName, pol)
        base == IF toolPolicy = << >> THEN 10 ELSE toolPolicy[1].baseScore
        kws == IF toolPolicy = << >> THEN << >> ELSE toolPolicy[1].keywords
        haystack == params.command
        Includes(kw) == \E i \in 1..Len(haystack) : kw \in KeywordsOf(haystack[i])
        Delta(k) == IF Includes(kws[k].keyword) THEN kws[k].delta ELSE 0
        score == ClampScore(base + SeqSum([k \in 1..Len(kws) |-> Delta(k)]))
    IN [ score |-> score,
         tier |-> TierOfScore(score, pol.thresholds),
         matchedKeywords |->
             SelectSeq([k \in 1..Len(kws) |-> kws[k].keyword], Includes) ]

assessRisk(toolName, params, pol) ==
    LET toolPolicy == FindToolPolicy(toolName, pol)
        base == IF toolPolicy = << >> THEN 10 ELSE toolPolicy[1].baseScore
        kws == IF toolPolicy = << >> THEN << >> ELSE toolPolicy[1].keywords
        haystack == flattenParams(params)
        Occ(kw) == {i \in 1..Len(haystack) : kw \in KeywordsOf(haystack[i])}
        Includes(kw) == Occ(kw) # {}
        Effective(k) ==
            IF ~Includes(kws[k].keyword) THEN 0
            ELSE IF isQuotedOrCommentedKw(haystack, Occ(kws[k].keyword))
                 THEN RoundMul(kws[k].delta, 3, 10)
                 ELSE kws[k].delta
        summed == base + SeqSum([k \in 1..Len(kws) |-> Effective(k)])
        mult == pathRiskMultiplier(params)
        score == ClampScore(RoundMul(summed, mult[1], mult[2]))
    IN [ score |-> score,
         tier |-> TierOfScore(score, pol.thresholds),
         matchedKeywords |->
             SelectSeq([k \in 1..Len(kws) |-> kws[k].keyword], Includes) ]

(***************************************************************************)
(* blacklist.ts                                                             *)
(*   semi pipe nl andand oror   the operators ; | newline && ||             *)
(*   bash         the bare word `bash`                                      *)
(*   opt_s        `-s`, the shell option to read commands from its input    *)
(*   bash_c       `bash -c`, followed by the payload                        *)
(*   python_c     `python -c`, followed by the payload                      *)
(*   stop_sshd    `systemctl stop sshd`                                     *)
(*   word         a word that no pattern matches                            *)
(***************************************************************************)
Rule(set, idx) == [set |-> set, idx |-> idx]

\* The rule lists, a rule being named by its list and its place in it.
CRITICAL_EXEC == [k \in 1..16 |-> Rule("CRITICAL_EXEC", k)]
WARNING_EXEC == [k \in 1..21 |-> Rule("WARNING_EXEC", k)]
PIPE_ATTACKS == [k \in 1..7 |-> Rule("PIPE_ATTACKS", k)]
CRITICAL_PATH == [k \in 1..2 |-> Rule("CRITICAL_PATH", k)]
WARNING_PATH == [k \in 1..2 |-> Rule("WARNING_PATH", k)]

\* The exec rules whose pattern matches inside the text of a token.
TokenRules(tok) ==
    CASE tok = "rm_etc"    -> {Rule("CRITICAL_EXEC", 1), Rule("WARNING_EXEC", 1)}
      [] tok = "rm_tmp"    -> {Rule("WARNING_EXEC", 1)}
      [] tok = "sudo_apt"  -> {Rule("WARNING_EXEC", 2)}
      [] tok = "stop_sshd" -> {Rule("CRITICAL_EXEC", 10), Rule("WARNING_EXEC", 9)}
      [] tok = "pkill_node" -> {Rule("WARNING_EXEC", 8)}
      [] tok = "/etc/passwd" -> {Rule("CRITICAL_PATH", 1), Rule("WARNING_PATH", 1)}
      [] tok = "/etc/hosts" -> {Rule("WARNING_PATH", 1)}
      [] tok = "/boot/grub.cfg" -> {Rule("CRITICAL_PATH", 2)}
      [] tok = "/root/.bashrc" -> {Rule("WARNING_PATH", 2)}
      [] OTHER             -> {}

\* Tokens whose text, at the start of a segment, matches a SAFE_EXEC pattern.
SafeStartTokens == {"ls_tmp", "echo"}

Separators == {"semi", "pipe", "nl", "andand", "oror"}
\* Tokens whose text ends with the character |
PipeTokens == {"pipe", "oror"}
\* Tokens whose text starts with a shell's name
ShellTokens == {"bash", "bash_c"}

CountBefore(text, matchIndex, tok) ==
    Cardinality({j \in 1..(matchIndex - 1) : text[j] = tok})

\* isQuotedOrCommented(text, matchIndex) of blacklist.ts; /"/g counts the
\* double quote of `\"` as well.
isQuotedOrCommented(text, matchIndex) ==
    \/ (CountBefore(text, matchIndex, "dq")
           + CountBefore(text, matchIndex, "esc_dq")) % 2 = 1
    \/ CountBefore(text, matchIndex, "sq") % 2 = 1
    \/ \E j \in LineStart(text, matchIndex)..(matchIndex - 1) : text[j] = "hash"

\* Where a pipe attack pattern matches first (0: nowhere): patterns 4, 6
\* and 7, the others needing text no token of the model has.
PipeAttackIndex(k, text) ==
    LET PipeToShell(j) == /\ j < Len(text)
                          /\ text[j] \in PipeTokens
                          /\ text[j + 1] \in ShellTokens
        SameLine(i, j) == \A m \in i..j : text[m] # "nl"
        occ == CASE k = 4 -> {i \in 1..Len(text) :
                                /\ text[i] = "echo"
                                /\ \E j \in (i + 1)..Len(text) :
                                      PipeToShell(j) /\ SameLine(i, j)}
                 [] k = 6 -> {j \in 1..Len(text) :
                                /\ PipeToShell(j)
                                /\ text[j + 1] = "bash"
                                /\ j + 1 = Len(text)}
                 [] k = 7 -> {j \in 1..Len(text) :
                                /\ PipeToShell(j)
                                /\ text[j + 1] = "bash"
                                /\ j + 2 <= Len(text)
                                /\ text[j + 2] \in {"semi", "pipe", "andand", "oror"}}
                 [] OTHER -> {}
    IN IF occ = {} THEN 0 ELSE Min(occ)

\* rule.pattern.exec(text): the place of the leftmost match, 0 for null.
MatchIndex(rule, text) ==
    IF rule.set = "PIPE_ATTACKS" THEN PipeAttackIndex(rule.idx, text)
    ELSE LET occ == {i \in 1..Len(text) : rule \in TokenRules(text[i])}
         IN IF occ = {} THEN 0 ELSE Min(occ)

NoMatch == [level |-> "none", pattern |-> Rule("", 0), reason |-> << >>]

matchRules(text, rules, level) ==
    LET hits == {k \in 1..Len(rules) :
                    /\ MatchIndex(rules[k], text) # 0
                    /\ ~isQuotedOrCommented(text, MatchIndex(rules[k], text))}
    IN IF hits = {} THEN NoMatch
       ELSE [level |-> level, pattern |-> rules[Min(hits)],
             reason |-> << "rule reason" >>]

\* A variant of matchRulesRaw that keeps the quote/comment detection.
matchRulesRaw_Suppressing(text, rules, level) ==
    LET hits == {k \in 1..Len(rules) :
                    /\ MatchIndex(rules[k], text) # 0
                    /\ ~isQuotedOrCommented(text, MatchIndex(rules[k], text))}
    IN IF hits = {} THEN NoMatch
       ELSE [level |-> level, pattern |-> rules[Min(hits)],
             reason |-> << "rule reason" >>]

matchRulesRaw(text, rules, level) ==
    LET hits == {k \in 1..Len(rules) : MatchIndex(rules[k], text) # 0}
    IN IF hits = {} THEN NoMatch
       ELSE [level |-> level, pattern |-> rules[Min(hits)],
             reason |-> << "rule reason" >>]

NonEmptySeq(sq) == sq # << >>

splitCommand(cmd) ==
    LET RECURSIVE Go(_, _, _, _, _)
        Go(i, current, inSingle, inDouble, segments) ==
            IF i > Len(cmd)
            THEN IF current # << >> THEN Append(segments, current) ELSE segments
            ELSE LET ch == cmd[i]
                 IN IF ch = "sq" /\ ~inDouble
                    THEN Go(i + 1, Append(current, ch), ~inSingle, inDouble, segments)
                    ELSE IF ch \in {"dq", "esc_dq"} /\ ~inSingle
                    THEN Go(i + 1, Append(current, ch), inSingle, ~inDouble, segments)
                    ELSE IF ~inSingle /\ ~inDouble /\ ch \in Separators
                    THEN Go(i + 1, << >>, inSingle, inDouble, Append(segments, current))
                    ELSE Go(i + 1, Append(current, ch), inSingle, inDouble, segments)
    IN SelectSeq(Go(1, << >>, FALSE, FALSE, << >>), NonEmptySeq)

\* The quoted payload that follows the first token of a segment: the text
\* between a quote and the next quote of the same kind; << >> for none.  An
\* `\"` is no quote of either kind: "((?:[^"\\]|\\.)*)" takes it as part of
\* the payload.
QuotedPayload(seg) ==
    IF Len(seg) < 3 \/ seg[2] \notin QuoteTokens THEN << >>
    ELSE LET closing == {j \in 3..Len(seg) : seg[j] = seg[2]}
         IN IF closing = {} THEN << >> ELSE SubSeq(seg, 3, Min(closing) - 1)

\* A variant of extractShellWrapperPayload that hands on the segment without
\* its first word and with one more word at its end.
extractShellWrapperPayload_NotShorter(seg) ==
    IF seg = << >> \/ seg[1] # "bash_c" THEN << >>
    ELSE Tail(seg) \o << "word" >>

\* extractShellWrapperPayload; null and the empty payload are both << >>,
\* which the caller takes alike.  An unquoted payload is one word.
extractShellWrapperPayload(seg) ==
    IF seg = << >> \/ seg[1] # "bash_c" THEN << >>
    ELSE IF QuotedPayload(seg) # << >> THEN QuotedPayload(seg)
    ELSE IF Len(seg) >= 2 /\ seg[2] \notin QuoteTokens THEN << "word" >>
    ELSE << >>

extractInterpreterPayload(seg) ==
    IF seg = << >> \/ seg[1] # "python_c" THEN << >>
    ELSE QuotedPayload(seg)

\* The first element of a sequence of matches that is a match, if any.
FirstMatch(ms) ==
    LET hits == {k \in 1..Len(ms) : ms[k].level # "none"}
    IN IF hits = {} THEN NoMatch ELSE ms[Min(hits)]

\* SAFE_EXEC.some(re => re.test(seg))
MatchesSafeExec(seg) == seg # << >> /\ seg[1] \in SafeStartTokens

RECURSIVE checkExecBlacklist(_)

\* Phase 2 for one segment: the shell wrapper, then the interpreter.
UnwrapSegment(seg) ==
    LET shellPayload == extractShellWrapperPayload(seg)
        shellInner == IF shellPayload = << >> THEN NoMatch
                      ELSE checkExecBlacklist(shellPayload)
        interpPayload == extractInterpreterPayload(seg)
        critInner == matchRulesRaw(interpPayload, CRITICAL_EXEC, "critical")
        interpInner == IF interpPayload = << >> THEN NoMatch
                       ELSE IF critInner.level # "none" THEN critInner
                       ELSE matchRulesRaw(interpPayload, WARNING_EXEC, "warning")
    IN IF shellInner.level # "none"
       THEN [shellInner EXCEPT !.reason = Append(@, "via shell wrapper")]
       ELSE IF interpInner.level # "none"
       THEN [interpInner EXCEPT !.reason = Append(@, "via interpreter inline code")]
       ELSE NoMatch

\* A variant of phase 3 for one segment without the whitelist.
MatchSegment_NoWhitelist(seg) ==
    LET crit == matchRules(seg, CRITICAL_EXEC, "critical")
    IN IF crit.level # "none" THEN crit
       ELSE matchRules(seg, WARNING_EXEC, "warning")

\* A variant of phase 3 that tests the warning rules first.
MatchSegment_WarningFirst(seg) ==
    IF MatchesSafeExec(seg) THEN NoMatch
    ELSE LET warn == matchRules(seg, WARNING_EXEC, "warning")
         IN IF warn.level # "none" THEN warn
            ELSE matchRules(seg, CRITICAL_EXEC, "critical")

\* Phase 3 for one segment.
MatchSegment(seg) ==
    IF MatchesSafeExec(seg) THEN NoMatch
    ELSE LET crit == matchRules(seg, CRITICAL_EXEC, "critical")
         IN IF crit.level # "none" THEN crit
            ELSE matchRules(seg, WARNING_EXEC, "warning")

checkExecBlacklist(command) ==
    IF command = << >> THEN NoMatch
    ELSE
    LET fullMatch == matchRules(command, PIPE_ATTACKS, "critical")
        segments == splitCommand(command)
        phase2 == FirstMatch([k \in 1..Len(segments) |-> UnwrapSegment(segments[k])])
        phase3 == FirstMatch([k \in 1..Len(segments) |-> MatchSegment(segments[k])])
    IN IF fullMatch.level # "none" THEN fullMatch
       ELSE IF phase2.level # "none" THEN phase2
       ELSE phase3

\* A file path is the text of one token.
checkPathBlacklist(filePath) ==
    IF filePath = << >> THEN NoMatch
    ELSE LET crit == matchRules(filePath, CRITICAL_PATH, "critical")
         IN IF crit.level # "none" THEN crit
            ELSE matchRules(filePath, WARNING_PATH, "warning")

(***************************************************************************)
(* guardian-voter.ts                                                        *)
(***************************************************************************)
\* Indices (in declaration order) of the SHARED_REJECT_PATTERNS that the
\* text of a token matches.
RejectPatternsOf(tok) ==
    CASE tok = "rm_etc"   -> {1, 19}
      [] tok = "rm_tmp"   -> {1, 19}
      [] tok = "sudo_apt" -> {13}
      [] OTHER            -> {}

NumRejectPatterns == 29

GUARDIANS == << "safety", "privacy", "permission", "reversibility" >>

\* Array.prototype.slice(0, n)
SliceFromStart(arr, n) ==
    LET end == IF n < 0 THEN (IF Len(arr) + n > 0 THEN Len(arr) + n ELSE 0)
               ELSE (IF n < Len(arr) THEN n ELSE Len(arr))
    IN SubSeq(arr, 1, end)

\* What the external call of callLLM can come back with: a text holding a
\* JSON object with approve true / false / absent, a text without a JSON
\* object, a text whose object does not parse, or a rejected fetch.
LlmOutcomes ==
    {"approve_true", "approve_false", "approve_absent", "no_json", "bad_json",
     "fetch_error"}

\* ruleBasedVote: the first reject pattern with a match whose first
\* occurrence is not in a quoted/commented context rejects.
ruleBasedVote(guardian, toolName, params) ==
    LET haystack == << toolName >> \o params.command
        Occ(p) == {i \in 1..Len(haystack) : p \in RejectPatternsOf(haystack[i])}
        Rejecting(p) ==
            /\ Occ(p) # {}
            /\ ~isQuotedOrCommentedKw(haystack, Occ(p))
        rejecting == {p \in 1..NumRejectPatterns : Rejecting(p)}
    IN IF rejecting # {}
       THEN [ guardian |-> guardian, approve |-> FALSE, confidence |-> 8,
              reason |-> [text |-> "Rule match", pattern |-> Min(rejecting)],
              method |-> "rule" ]
       ELSE [ guardian |-> guardian, approve |-> TRUE, confidence |-> 7,
              reason |-> [text |-> "No dangerous patterns detected", pattern |-> 0],
              method |-> "rule" ]

\* llmVote: the parsed vote as a one-element sequence, or << >> for null.
\* The confidence is in tenths; a reply carries no numeric confidence and
\* no reason, so the defaults 0.5 and "LLM evaluation" apply.
llmVote(guardian, outcome) ==
    IF outcome \in {"no_json", "bad_json", "fetch_error"} THEN << >>
    ELSE << [ guardian |-> guardian, approve |-> (outcome = "approve_true"),
              confidence |-> 5,
              reason |-> [text |-> "LLM evaluation", pattern |-> 0],
              method |-> "llm" ] >>

\* evaluateGuardian: llmResult ?? ruleBasedVote(...)
evaluateGuardian(guardian, toolName, params, outcome) ==
    LET llmResult == llmVote(guardian, outcome)
    IN IF llmResult # << >> THEN llmResult[1]
       ELSE ruleBasedVote(guardian, toolName, params)

ApproveCount(vs) == Cardinality({i \in 1..Len(vs) : vs[i].approve})

\* The reasons of the rejecting votes, as runVoting joins them.
RejectReasons(vs) ==
    LET Rejects(v) == ~v.approve
        rej == SelectSeq(vs, Rejects)
    IN [i \in 1..Len(rej) |-> [guardian |-> rej[i].guardian, reason |-> rej[i].reason]]

\* A variant of the aggregate below that asks for more approvals than the
\* threshold.
FullVoteResult_Strict(vs, votingConfig) ==
    LET approveCount == ApproveCount(vs)
        approved == approveCount > votingConfig.threshold
    IN [ approved |-> approved,
         votes |-> vs,
         reason |-> [ text |-> IF approved THEN "Approved" ELSE "Rejected",
                      approveCount |-> approveCount, total |-> Len(vs),
                      rejected |-> IF approved THEN << >> ELSE RejectReasons(vs) ],
         tier |-> "full" ]

\* runVoting, full tier: the aggregate computed once Promise.allSettled
\* has resolved.
FullVoteResult(vs, votingConfig) ==
    LET approveCount == ApproveCount(vs)
        approved == approveCount >= votingConfig.threshold
    IN [ approved |-> approved,
         votes |-> vs,
         reason |-> [ text |-> IF approved THEN "Approved" ELSE "Rejected",
                      approveCount |-> approveCount, total |-> Len(vs),
                      rejected |-> IF approved THEN << >> ELSE RejectReasons(vs) ],
         tier |-> "full" ]

\* A variant of the light result below that approves whatever the vote.
LightVoteResult_AlwaysApprove(vote) ==
    [ approved |-> TRUE, votes |-> << vote >>,
      reason |-> vote.reason, tier |-> "light" ]

\* runVoting, light tier: the single comprehensive guardian decides.
LightVoteResult(vote) ==
    [ approved |-> vote.approve, votes |-> << vote >>,
      reason |-> vote.reason, tier |-> "light" ]

\* runVoting, fast tier.
FastVoteResult(riskArg) ==
    [ approved |-> TRUE, votes |-> << >>,
      reason |-> [text |-> "Fast lane: risk score below threshold",
                  score |-> riskArg.score],
      tier |-> "fast" ]

(***************************************************************************)
(* llm-voter.ts                                                             *)
(***************************************************************************)
\* What the provider can do with one request of callLLM: reply with a JSON
\* object whose "confirmed" is true / false / absent, reply without a JSON
\* object, reply with an object that does not parse, reply with a non-OK
\* status, or never complete the fetch (transport error or abort).
VoterOutcomes ==
    {"confirmed_true", "confirmed_false", "confirmed_absent", "no_json",
     "bad_json", "http_error", "fetch_error"}

\* callLLM: what the call resolves to, or the message of what it throws.
callLLM(ready, outcome) ==
    IF ~ready
    THEN [threw |-> TRUE, confirmed |-> FALSE, reason |-> "LLM not initialized"]
    ELSE CASE outcome = "confirmed_true" ->
                [threw |-> FALSE, confirmed |-> TRUE, reason |-> ""]
           [] outcome \in {"confirmed_false", "confirmed_absent"} ->
                [threw |-> FALSE, confirmed |-> FALSE, reason |-> ""]
           [] outcome = "http_error" ->
                [threw |-> TRUE, confirmed |-> FALSE, reason |-> "LLM HTTP 500"]
           [] outcome = "no_json" ->
                [threw |-> TRUE, confirmed |-> FALSE,
                 reason |-> "No JSON in LLM response"]
           [] outcome = "bad_json" ->
                [threw |-> TRUE, confirmed |-> FALSE, reason |-> "Unexpected token"]
           [] OTHER ->
                [threw |-> TRUE, confirmed |-> FALSE, reason |-> "fetch failed"]

\* singleVote: the call's result, or the catch clause's refusal.
SingleVoteResult(r) ==
    IF r.threw
    THEN [confirmed |-> FALSE,
          reason |-> [text |-> "LLM unavailable", message |-> r.reason]]
    ELSE [confirmed |-> r.confirmed,
          reason |-> [text |-> "", message |-> r.reason]]

\* multiVote: the vote the .then / .catch of voter i makes of a call.
VoterVote(i, r) ==
    IF r.threw
    THEN [voter |-> i, confirmed |-> FALSE,
          reason |-> [text |-> "LLM error", message |-> r.reason]]
    ELSE [voter |-> i, confirmed |-> r.confirmed,
          reason |-> [text |-> "", message |-> r.reason]]

\* multiVote: the aggregate computed once Promise.all has resolved.
MultiVoteResult(vs, count, threshold) ==
    LET yesCount == Cardinality({i \in 1..Len(vs) : vs[i].confirmed})
        confirmed == yesCount >= threshold
    IN [ confirmed |-> confirmed,
         reason |-> [ text |-> IF confirmed THEN "voters confirmed user intent"
                               ELSE "Only some confirmed",
                      yesCount |-> yesCount, count |-> count,
                      threshold |-> threshold ],
         votes |-> vs ]

(***************************************************************************)
(* audit-log.ts                                                             *)
(***************************************************************************)
\* The empty string that lastHash starts with.
EmptyHash == << >>

\* computeHash: SHA-256 taken as collision free, so a digest is modelled by
\* what was digested.
computeHash(data) == << data >>

\* sanitizeParams: "command" is no sensitive key and the commands of the
\* model are shorter than the truncation limit, so the value is kept.
sanitizeParams(params) == [command |-> params.command]

\* An entry without its hash field: what computeHash is applied to.
HashInput(e) ==
    [ timestamp |-> e.timestamp, toolName |-> e.toolName, params |-> e.params,
      riskScore |-> e.riskScore, tier |-> e.tier,
      matchedKeywords |-> e.matchedKeywords, votes |-> e.votes,
      approved |-> e.approved, reason |-> e.reason, prevHash |-> e.prevHash ]

\* A variant of writeAuditEntry that takes the digest before the link to the
\* previous entry is in place.
writeAuditEntry_HashBeforeLink(prev, clock, toolName, params, riskArg, vs, approved, reason) ==
    LET entry == [ timestamp |-> clock,
                   toolName |-> toolName,
                   params |-> sanitizeParams(params),
                   riskScore |-> riskArg.score,
                   tier |-> riskArg.tier,
                   matchedKeywords |-> riskArg.matchedKeywords,
                   votes |-> vs,
                   approved |-> approved,
                   reason |-> reason,
                   prevHash |-> EmptyHash ]
    IN [ timestamp |-> entry.timestamp, toolName |-> entry.toolName,
         params |-> entry.params, riskScore |-> entry.riskScore,
         tier |-> entry.tier, matchedKeywords |-> entry.matchedKeywords,
         votes |-> entry.votes, approved |-> entry.approved,
         reason |-> entry.reason, prevHash |-> prev,
         hash |-> computeHash(entry) ]

\* A variant of writeAuditEntry that records no votes.
writeAuditEntry_NoVotes(prev, clock, toolName, params, riskArg, vs, approved, reason) ==
    LET entry == [ timestamp |-> clock,
                   toolName |-> toolName,
                   params |-> sanitizeParams(params),
                   riskScore |-> riskArg.score,
                   tier |-> riskArg.tier,
                   matchedKeywords |-> riskArg.matchedKeywords,
                   votes |-> << >>,
                   approved |-> approved,
                   reason |-> reason,
                   prevHash |-> prev ]
    IN [ timestamp |-> entry.timestamp, toolName |-> entry.toolName,
         params |-> entry.params, riskScore |-> entry.riskScore,
         tier |-> entry.tier, matchedKeywords |-> entry.matchedKeywords,
         votes |-> entry.votes, approved |-> entry.approved,
         reason |-> entry.reason, prevHash |-> entry.prevHash,
         hash |-> computeHash(entry) ]

\* writeAuditEntry: the entry it builds and returns, given the module's
\* lastHash and the clock.
writeAuditEntry(prev, clock, toolName, params, riskArg, vs, approved, reason) ==
    LET entry == [ timestamp |-> clock,
                   toolName |-> toolName,
                   params |-> sanitizeParams(params),
                   riskScore |-> riskArg.score,
                   tier |-> riskArg.tier,
                   matchedKeywords |-> riskArg.matchedKeywords,
                   votes |-> vs,
                   approved |-> approved,
                   reason |-> reason,
                   prevHash |-> prev ]
    IN [ timestamp |-> entry.timestamp, toolName |-> entry.toolName,
         params |-> entry.params, riskScore |-> entry.riskScore,
         tier |-> entry.tier, matchedKeywords |-> entry.matchedKeywords,
         votes |-> entry.votes, approved |-> entry.approved,
         reason |-> entry.reason, prevHash |-> entry.prevHash,
         hash |-> computeHash(entry) ]

\* recoverLastHash: the hash of the last stored line, the empty string when
\* the file is missing or empty.
recoverLastHash(exists, lines) ==
    IF ~exists THEN EmptyHash
    ELSE IF lines = << >> THEN EmptyHash
    ELSE lines[Len(lines)].hash

\* A variant of the loop that follows the links and recomputes no hash.
RECURSIVE VerifyFrom_LinksOnly(_, _, _)
VerifyFrom_LinksOnly(lines, i, prevHash) ==
    IF i > Len(lines) THEN [valid |-> TRUE, entries |-> Len(lines), brokenAt |-> -1]
    ELSE IF lines[i].prevHash # prevHash
         THEN [valid |-> FALSE, entries |-> Len(lines), brokenAt |-> i - 1]
    ELSE VerifyFrom_LinksOnly(lines, i + 1, lines[i].hash)

\* The loop of verifyAuditChain from line i (counted from 1) on, prevHash
\* being the stored hash of the line before; brokenAt counts from 0 as the
\* code does.
RECURSIVE VerifyFrom(_, _, _)
VerifyFrom(lines, i, prevHash) ==
    IF i > Len(lines) THEN [valid |-> TRUE, entries |-> Len(lines), brokenAt |-> -1]
    ELSE IF lines[i].prevHash # prevHash
         THEN [valid |-> FALSE, entries |-> Len(lines), brokenAt |-> i - 1]
    ELSE IF lines[i].hash # computeHash(HashInput(lines[i]))
         THEN [valid |-> FALSE, entries |-> Len(lines), brokenAt |-> i - 1]
    ELSE VerifyFrom(lines, i + 1, lines[i].hash)

\* verifyAuditChain: brokenAt is -1 where the code returns none.  Reading a
\* missing file throws, which the catch turns into {valid: false, entries: 0}.
verifyAuditChain(exists, lines) ==
    IF ~exists THEN [valid |-> FALSE, entries |-> 0, brokenAt |-> -1]
    ELSE IF lines = << >> THEN [valid |-> TRUE, entries |-> 0, brokenAt |-> -1]
    ELSE VerifyFrom(lines, 1, EmptyHash)

\* A variant of the effect below in which nothing is recorded; the audit
\* properties must tell it apart from the real one.
AppendAudit_NoWrite(entry) ==
    /\ auditEntry' = << >>
    /\ UNCHANGED << lastHash, logFile, now, lostEntries, logExists >>

\* A variant of the effect below in which a failing append is not caught, so
\* that the call returns no entry.
AppendAudit_RaiseOnFailure(entry) ==
    /\ lastHash' = entry.hash
    /\ logFile' = IF storageOk THEN Append(logFile, entry) ELSE logFile
    /\ lostEntries' = IF storageOk THEN lostEntries ELSE lostEntries + 1
    /\ logExists' = (logExists \/ storageOk)
    /\ now' = now + 1
    /\ auditEntry' = IF storageOk THEN << entry >> ELSE << >>

\* A variant of the effect below that leaves the chain cursor where it was.
AppendAudit_KeepCursor(entry) ==
    /\ lastHash' = lastHash
    /\ logFile' = IF storageOk THEN Append(logFile, entry) ELSE logFile
    /\ lostEntries' = IF storageOk THEN lostEntries ELSE lostEntries + 1
    /\ logExists' = (logExists \/ storageOk)
    /\ now' = now + 1
    /\ auditEntry' = << entry >>

\* writeAuditEntry's effect on the module state and on the store.
AppendAudit(entry) ==
    /\ lastHash' = entry.hash
    /\ logFile' = IF storageOk THEN Append(logFile, entry) ELSE logFile
    /\ lostEntries' = IF storageOk THEN lostEntries ELSE lostEntries + 1
    /\ logExists' = (logExists \/ storageOk)
    /\ now' = now + 1
    /\ auditEntry' = << entry >>

(***************************************************************************)
(* index.ts: setup() and the before_tool_call handler                       *)
(***************************************************************************)
MkPolicies(entries, guardians, threshold, tbEnabled, after) ==
    [ enabled |-> TRUE,
      thresholds |-> [low |-> 30, high |-> 70],
      policies |-> entries,
      voting |-> [ lightReview |-> [guardians |-> 1, threshold |-> 1],
                   fullVote |-> [guardians |-> guardians, threshold |-> threshold] ],
      trustBudget |-> [enabled |-> tbEnabled, autoDowngradeAfter |-> after] ]

\* loadPolicies: the built-in document used when the policy file is missing
\* or does not parse.
DefaultPolicies == MkPolicies(<< >>, 3, 2, TRUE, 10)

\* A policy entry for the exec tool, as a policy file supplies it.
ExecPolicy ==
    [ tool |-> "exec", baseScore |-> 40,
      keywords |-> << [keyword |-> "rm -rf", delta |-> 50],
                      [keyword |-> "sudo", delta |-> 20] >> ]

\* A variant of the downgrade below that starts one approval late.
EffectiveRisk_Late(riskArg, pol, approvals) ==
    IF pol.trustBudget.enabled /\ approvals > pol.trustBudget.autoDowngradeAfter
    THEN IF riskArg.tier = "full" THEN [riskArg EXCEPT !.tier = "light"]
         ELSE IF riskArg.tier = "light" THEN [riskArg EXCEPT !.tier = "fast"]
         ELSE riskArg
    ELSE riskArg

\* The trust budget's downgrade of the scored tier.
EffectiveRisk(riskArg, pol, approvals) ==
    IF pol.trustBudget.enabled /\ approvals >= pol.trustBudget.autoDowngradeAfter
    THEN IF riskArg.tier = "full" THEN [riskArg EXCEPT !.tier = "light"]
         ELSE IF riskArg.tier = "light" THEN [riskArg EXCEPT !.tier = "fast"]
         ELSE riskArg
    ELSE riskArg

\* A variant of the update below that writes 1 over whatever the counter
\* holds, as an update computed from a stale reading would.
TrustAfter_Overwrite(approvals, approved) == IF approved THEN 1 ELSE 0

\* A variant of the update below that keeps the counter on a rejection.
TrustAfter_NoReset(approvals, approved) ==
    IF approved THEN approvals + 1 ELSE approvals

\* The trust budget's update after a review.
TrustAfter(approvals, approved) == IF approved THEN approvals + 1 ELSE 0

\* What the handler returns: nothing (pass through) or a block decision.
PassThrough == [block |-> FALSE, blockReason |-> << >>]
\* A variant of the block decision that gives no reason.
BlockDecision_NoReason(res, riskArg) == [block |-> TRUE, blockReason |-> << >>]

BlockDecision(res, riskArg) ==
    [ block |-> TRUE,
      blockReason |-> << [ text |-> "Guardian blocked", reason |-> res.reason,
                           score |-> riskArg.score ] >> ]

\* Values of the variables that hold nothing yet.
NoRisk == [score |-> 0, tier |-> "none", matchedKeywords |-> << >>]
NoEvent == [toolName |-> "", params |-> [command |-> << >>]]
NoResult == [approved |-> FALSE, votes |-> << >>, reason |-> [text |-> ""],
             tier |-> "none"]
NoArgs == [risk |-> NoRisk, toolName |-> "", params |-> [command |-> << >>]]
NoVoterArgs == [fn |-> "", count |-> 0, threshold |-> 0]
NoVoteResult == [confirmed |-> FALSE, reason |-> [text |-> ""], votes |-> << >>]
NoVerify == [valid |-> FALSE, entries |-> -1, brokenAt |-> -1]

\* The commands the host hands to the gate.
Commands == { << "pkill_node" >>, << "ls_tmp" >>, << "rm_etc" >> }
Events == { [toolName |-> "exec", params |-> [command |-> c]] : c \in Commands }

\* The policy documents setup() may have loaded.
PolicyDocs ==
    { DefaultPolicies,
      MkPolicies(<< ExecPolicy >>, 2, 1, TRUE, 1),
      MkPolicies(<< ExecPolicy >>, 2, 2, FALSE, 1) }

\* runVoting up to its first await, for a light or full tier.
StartReview(riskArg, toolName, params) ==
    /\ rvArgs' = [risk |-> riskArg, toolName |-> toolName, params |-> params]
    /\ votes' = << >>
    /\ rejectCount' = 0
    /\ selectedGuardians' =
          IF riskArg.tier = "light" THEN << "comprehensive" >>
          ELSE SliceFromStart(GUARDIANS, policies.voting.fullVote.guardians)
    /\ llmCalls' = [i \in 1..Len(selectedGuardians') |-> "pending"]
    /\ rvPc' = riskArg.tier

\* One guardian's evaluateGuardian task resolves and its vote is pushed.
Settle(i, outcome) ==
    LET vote == evaluateGuardian(selectedGuardians[i], rvArgs.toolName,
                                 rvArgs.params, outcome)
    IN /\ rvPc \in {"light", "full"}
       /\ i \in DOMAIN llmCalls
       /\ llmCalls[i] = "pending"
       /\ llmCalls' = [llmCalls EXCEPT ![i] = "settled"]
       /\ votes' = Append(votes, vote)
       /\ rejectCount' = IF rvPc = "full" /\ ~vote.approve
                         THEN rejectCount + 1 ELSE rejectCount

AllSettled == \A i \in DOMAIN llmCalls : llmCalls[i] = "settled"

\* The external call answers (or fails) before the abort timer fires.
LlmAnswers(i, outcome) ==
    /\ Settle(i, outcome)
    /\ UNCHANGED << policies, handlers, verifyResult, tamperedAt, blCommand, blPc,
                    blMatch, ruleMatch, lostEntries, logExists,
                    consecutiveApprovals, lastHash, logFile, storageOk,
                    now, hPc, event, risk, effectiveRisk, rvPc, rvArgs,
                    selectedGuardians, result, decision, auditEntry, ncalls,
                    llmReady, mvPc, mvArgs, mvCalls, mvResult >>

\* A variant of the timer below whose firing leaves the fetch pending.
AbortTimerFires_NoAbort(i) ==
    /\ rvPc \in {"light", "full"}
    /\ i \in DOMAIN llmCalls
    /\ llmCalls[i] = "pending"
    /\ UNCHANGED vars

\* callLLM's timer aborts the fetch after LLM_TIMEOUT_MS.
AbortTimerFires(i) ==
    /\ Settle(i, "fetch_error")
    /\ UNCHANGED << policies, handlers, verifyResult, tamperedAt, blCommand, blPc,
                    blMatch, ruleMatch, lostEntries, logExists,
                    consecutiveApprovals, lastHash, logFile, storageOk,
                    now, hPc, event, risk, effectiveRisk, rvPc, rvArgs,
                    selectedGuardians, result, decision, auditEntry, ncalls,
                    llmReady, mvPc, mvArgs, mvCalls, mvResult >>

\* runVoting after its await: the aggregate is computed and returned.
RunVotingReturns ==
    /\ rvPc \in {"light", "full"}
    /\ AllSettled
    /\ result' = IF rvPc = "light" THEN LightVoteResult(votes[1])
                 ELSE FullVoteResult(votes, policies.voting.fullVote)
    /\ rvPc' = "returned"
    /\ UNCHANGED << policies, handlers, verifyResult, tamperedAt, blCommand, blPc,
                    blMatch, ruleMatch, lostEntries, logExists,
                    consecutiveApprovals, lastHash, logFile, storageOk,
                    now, hPc, event, risk, effectiveRisk, rvArgs,
                    selectedGuardians, llmCalls, votes, rejectCount, decision,
                    auditEntry, ncalls, llmReady, mvPc, mvArgs, mvCalls,
                    mvResult >>

\* The before_tool_call handler up to its await (or, on the fast lane, to
\* its return).
BeforeToolCall(ev) ==
    LET r == assessRisk(ev.toolName, ev.params, policies)
        eff == EffectiveRisk(r, policies, consecutiveApprovals)
    IN /\ hPc \in {"idle", "done"}
       /\ rvPc = "idle"
       /\ ncalls < MaxCalls
       /\ ncalls' = ncalls + 1
       /\ event' = ev
       /\ risk' = r
       /\ effectiveRisk' = eff
       /\ result' = NoResult
       /\ IF eff.tier = "fast"
          THEN /\ AppendAudit(writeAuditEntry(lastHash, now, ev.toolName, ev.params,
                                              r, << >>, TRUE, [text |-> "Fast lane"]))
               /\ decision' = << PassThrough >>
               /\ hPc' = "done"
               /\ votes' = << >>
               /\ llmCalls' = << >>
               /\ selectedGuardians' = << >>
               /\ UNCHANGED << rvPc, rvArgs, rejectCount >>
          ELSE /\ StartReview(eff, ev.toolName, ev.params)
               /\ decision' = << >>
               /\ auditEntry' = << >>
               /\ hPc' = "awaiting"
               /\ UNCHANGED << lastHash, logFile, now, lostEntries, logExists >>
       /\ UNCHANGED << policies, handlers, verifyResult, tamperedAt, blCommand, blPc,
                       blMatch, ruleMatch, consecutiveApprovals, storageOk, llmReady,
                       mvPc, mvArgs, mvCalls, mvResult >>

\* The handler after `await runVoting(...)`: trust budget, audit entry and
\* the decision returned to the host.
ResumeHandler ==
    /\ hPc = "awaiting"
    /\ rvPc = "returned"
    /\ consecutiveApprovals' = TrustAfter(consecutiveApprovals, result.approved)
    /\ AppendAudit(writeAuditEntry(lastHash, now, event.toolName, event.params,
                                   risk, result.votes, result.approved,
                                   result.reason))
    /\ decision' = << IF result.approved THEN PassThrough
                      ELSE BlockDecision(result, risk) >>
    /\ hPc' = "done"
    /\ rvPc' = "idle"
    /\ UNCHANGED << policies, handlers, verifyResult, tamperedAt, blCommand, blPc,
                    blMatch, ruleMatch, storageOk, event, risk, effectiveRisk, rvArgs,
                    selectedGuardians, llmCalls, votes, rejectCount, result,
                    ncalls, llmReady, mvPc, mvArgs, mvCalls, mvResult >>

(***************************************************************************)
(* The gate as the host drives it: one tool call at a time.                 *)
(***************************************************************************)
Init ==
    /\ policies \in PolicyDocs
    /\ consecutiveApprovals = 0
    /\ lastHash = EmptyHash
    /\ logFile = << >>
    /\ storageOk \in BOOLEAN
    /\ now = 0
    /\ hPc = "idle"
    /\ event = NoEvent
    /\ risk = NoRisk
    /\ effectiveRisk = NoRisk
    /\ rvPc = "idle"
    /\ rvArgs = NoArgs
    /\ selectedGuardians = << >>
    /\ llmCalls = << >>
    /\ votes = << >>
    /\ rejectCount = 0
    /\ result = NoResult
    /\ decision = << >>
    /\ auditEntry = << >>
    /\ ncalls = 0
    /\ llmReady = FALSE
    /\ mvPc = "idle"
    /\ mvArgs = NoVoterArgs
    /\ mvCalls = << >>
    /\ mvResult = NoVoteResult
    /\ handlers = << >>
    /\ lostEntries = 0
    /\ logExists = FALSE
    /\ verifyResult = NoVerify
    /\ tamperedAt = 0
    /\ blCommand = << >>
    /\ blPc = "idle"
    /\ blMatch = NoMatch
    /\ ruleMatch = NoMatch

Next ==
    \/ \E ev \in Events : BeforeToolCall(ev)
    \/ \E i \in DOMAIN llmCalls : \E outcome \in LlmOutcomes : LlmAnswers(i, outcome)
    \/ \E i \in DOMAIN llmCalls : AbortTimerFires(i)
    \/ RunVotingReturns
    \/ ResumeHandler

Spec == Init /\ [][Next]_vars

\* The scheduling the runtime provides: a timer that was set fires, and a
\* continuation whose promise has resolved is run.  Nothing is assumed of the
\* external service: a call may never be answered.  The runs start from the
\* policy document under which all three tiers and the trust budget occur.
InitFair ==
    /\ Init
    /\ policies = MkPolicies(<< ExecPolicy >>, 2, 1, TRUE, 1)
    /\ storageOk

FairSpec ==
    /\ InitFair
    /\ [][Next]_vars
    /\ \A i \in 1..Len(GUARDIANS) : WF_vars(AbortTimerFires(i))
    /\ WF_vars(RunVotingReturns)
    /\ WF_vars(ResumeHandler)

(***************************************************************************)
(* The two voters called directly, one call at a time.  The voters share    *)
(* no state; a new call discards what is kept of the previous one.          *)
(***************************************************************************)
Tiers == {"fast", "light", "full"}

\* The policy documents runVoting is exercised with.
VotingPolicyDocs ==
    { DefaultPolicies,
      MkPolicies(<< ExecPolicy >>, 2, 2, TRUE, 10),
      MkPolicies(<< ExecPolicy >>, 4, 4, TRUE, 10),
      MkPolicies(<< ExecPolicy >>, 5, 3, TRUE, 10) }

\* The (count, threshold) arguments multiVote is called with; << 3, 3 >> are
\* its defaults.
VoterConfigs ==
    {cfg \in (1..MaxVoters) \X (1..MaxVoters) : cfg[2] <= cfg[1]}

DiscardRunVoting ==
    /\ rvPc' = "idle"
    /\ rvArgs' = NoArgs
    /\ selectedGuardians' = << >>
    /\ llmCalls' = << >>
    /\ votes' = << >>
    /\ rejectCount' = 0
    /\ result' = NoResult

DiscardVoter ==
    /\ mvPc' = "idle"
    /\ mvArgs' = NoVoterArgs
    /\ mvCalls' = << >>
    /\ mvResult' = NoVoteResult

NoCallInFlight ==
    /\ hPc = "idle"
    /\ rvPc \in {"idle", "returned"}
    /\ mvPc \in {"idle", "returned"}

\* runVoting(risk, toolName, params, policies) up to its first await or, for
\* the fast tier, to its return.
RunVotingCall(riskArg, ev) ==
    /\ NoCallInFlight
    /\ IF riskArg.tier = "fast"
       THEN /\ rvArgs' = [risk |-> riskArg, toolName |-> ev.toolName,
                          params |-> ev.params]
            /\ selectedGuardians' = << >>
            /\ llmCalls' = << >>
            /\ votes' = << >>
            /\ rejectCount' = 0
            /\ result' = FastVoteResult(riskArg)
            /\ rvPc' = "returned"
       ELSE /\ StartReview(riskArg, ev.toolName, ev.params)
            /\ result' = NoResult
    /\ DiscardVoter
    /\ UNCHANGED << policies, handlers, verifyResult, tamperedAt, blCommand, blPc,
                    blMatch, ruleMatch, lostEntries, logExists,
                    consecutiveApprovals, lastHash, logFile, storageOk,
                    now, hPc, event, risk, effectiveRisk, decision, auditEntry,
                    ncalls, llmReady >>

\* singleVote up to its await.
SingleVoteCall ==
    /\ NoCallInFlight
    /\ mvPc' = "single"
    /\ mvArgs' = [fn |-> "singleVote", count |-> 1, threshold |-> 1]
    /\ mvCalls' = << << >> >>
    /\ mvResult' = NoVoteResult
    /\ DiscardRunVoting
    /\ UNCHANGED << policies, handlers, verifyResult, tamperedAt, blCommand, blPc,
                    blMatch, ruleMatch, lostEntries, logExists,
                    consecutiveApprovals, lastHash, logFile, storageOk,
                    now, hPc, event, risk, effectiveRisk, decision, auditEntry,
                    ncalls, llmReady >>

\* multiVote up to its await: count calls of callLLM are started.
MultiVoteCall(count, threshold) ==
    /\ NoCallInFlight
    /\ mvPc' = "multi"
    /\ mvArgs' = [fn |-> "multiVote", count |-> count, threshold |-> threshold]
    /\ mvCalls' = [i \in 1..count |-> << >>]
    /\ mvResult' = NoVoteResult
    /\ DiscardRunVoting
    /\ UNCHANGED << policies, handlers, verifyResult, tamperedAt, blCommand, blPc,
                    blMatch, ruleMatch, lostEntries, logExists,
                    consecutiveApprovals, lastHash, logFile, storageOk,
                    now, hPc, event, risk, effectiveRisk, decision, auditEntry,
                    ncalls, llmReady >>

\* Call i of callLLM settles with r.
CallSettles(i, r) ==
    /\ mvPc \in {"single", "multi"}
    /\ i \in DOMAIN mvCalls
    /\ mvCalls[i] = << >>
    /\ mvCalls' = [mvCalls EXCEPT ![i] = << r >>]
    /\ UNCHANGED << policies, handlers, verifyResult, tamperedAt, blCommand, blPc,
                    blMatch, ruleMatch, lostEntries, logExists,
                    consecutiveApprovals, lastHash, logFile, storageOk,
                    now, hPc, event, risk, effectiveRisk, rvPc, rvArgs,
                    selectedGuardians, llmCalls, votes, rejectCount, result,
                    decision, auditEntry, ncalls, llmReady, mvPc, mvArgs,
                    mvResult >>

\* callLLM throws at once when initLlm found no provider.
CallNotInitialized(i) ==
    /\ ~llmReady
    /\ CallSettles(i, callLLM(FALSE, "fetch_error"))

\* The provider's reply (or the transport's failure) arrives in time.
CallAnswers(i, outcome) ==
    /\ llmReady
    /\ CallSettles(i, callLLM(TRUE, outcome))

\* callLLM's timer aborts the fetch after LLM_TIMEOUT_MS.
CallAbortTimerFires(i) ==
    /\ llmReady
    /\ CallSettles(i, callLLM(TRUE, "fetch_error"))

CallsSettled == \A i \in DOMAIN mvCalls : mvCalls[i] # << >>

\* singleVote after its await.
SingleVoteReturns ==
    /\ mvPc = "single"
    /\ CallsSettled
    /\ mvResult' = SingleVoteResult(mvCalls[1][1])
    /\ mvPc' = "returned"
    /\ UNCHANGED << policies, handlers, verifyResult, tamperedAt, blCommand, blPc,
                    blMatch, ruleMatch, lostEntries, logExists,
                    consecutiveApprovals, lastHash, logFile, storageOk,
                    now, hPc, event, risk, effectiveRisk, rvPc, rvArgs,
                    selectedGuardians, llmCalls, votes, rejectCount, result,
                    decision, auditEntry, ncalls, llmReady, mvArgs, mvCalls >>

\* multiVote after `await Promise.all(promises)`: the votes in voter order.
MultiVoteReturns ==
    /\ mvPc = "multi"
    /\ CallsSettled
    /\ mvResult' = MultiVoteResult([i \in 1..Len(mvCalls) |-> VoterVote(i, mvCalls[i][1])],
                                   mvArgs.count, mvArgs.threshold)
    /\ mvPc' = "returned"
    /\ UNCHANGED << policies, handlers, verifyResult, tamperedAt, blCommand, blPc,
                    blMatch, ruleMatch, lostEntries, logExists,
                    consecutiveApprovals, lastHash, logFile, storageOk,
                    now, hPc, event, risk, effectiveRisk, rvPc, rvArgs,
                    selectedGuardians, llmCalls, votes, rejectCount, result,
                    decision, auditEntry, ncalls, llmReady, mvArgs, mvCalls >>

InitVoting ==
    /\ policies \in VotingPolicyDocs
    /\ llmReady \in BOOLEAN
    /\ consecutiveApprovals = 0
    /\ lastHash = EmptyHash
    /\ logFile = << >>
    /\ storageOk = TRUE
    /\ now = 0
    /\ hPc = "idle"
    /\ event = NoEvent
    /\ risk = NoRisk
    /\ effectiveRisk = NoRisk
    /\ rvPc = "idle"
    /\ rvArgs = NoArgs
    /\ selectedGuardians = << >>
    /\ llmCalls = << >>
    /\ votes = << >>
    /\ rejectCount = 0
    /\ result = NoResult
    /\ decision = << >>
    /\ auditEntry = << >>
    /\ ncalls = 0
    /\ mvPc = "idle"
    /\ mvArgs = NoVoterArgs
    /\ mvCalls = << >>
    /\ mvResult = NoVoteResult
    /\ handlers = << >>
    /\ lostEntries = 0
    /\ logExists = FALSE
    /\ verifyResult = NoVerify
    /\ tamperedAt = 0
    /\ blCommand = << >>
    /\ blPc = "idle"
    /\ blMatch = NoMatch
    /\ ruleMatch = NoMatch

NextVoting ==
    \/ \E ev \in Events : \E tier \in Tiers :
          RunVotingCall([assessRisk(ev.toolName, ev.params, policies)
                            EXCEPT !.tier = tier], ev)
    \/ \E i \in DOMAIN llmCalls : \E outcome \in LlmOutcomes : LlmAnswers(i, outcome)
    \/ \E i \in DOMAIN llmCalls : AbortTimerFires(i)
    \/ RunVotingReturns
    \/ SingleVoteCall
    \/ \E cfg \in VoterConfigs : MultiVoteCall(cfg[1], cfg[2])
    \/ \E i \in DOMAIN mvCalls : CallNotInitialized(i)
    \/ \E i \in DOMAIN mvCalls : \E outcome \in VoterOutcomes : CallAnswers(i, outcome)
    \/ \E i \in DOMAIN mvCalls : CallAbortTimerFires(i)
    \/ SingleVoteReturns
    \/ MultiVoteReturns

SpecVoting == InitVoting /\ [][NextVoting]_vars

(***************************************************************************)
(* Several before_tool_call invocations in flight at once.  The runtime is  *)
(* single threaded: a handler runs without interruption from one await to   *)
(* the next, and the continuations of different handlers interleave in any  *)
(* order.  runVoting keeps its votes in locals of the call, so of a review  *)
(* only its result is kept here.                                            *)
(***************************************************************************)
IdleHandler ==
    [ pc |-> "idle", event |-> NoEvent, risk |-> NoRisk, effectiveRisk |-> NoRisk,
      result |-> NoResult, decision |-> << >>, entry |-> << >> ]

ConcurrentEvents ==
    { [toolName |-> "exec", params |-> [command |-> c]] :
         c \in { << "pkill_node" >>, << "ls_tmp" >>, << "rm_etc" >> } }

ConcurrentPolicyDocs ==
    { MkPolicies(<< ExecPolicy >>, 2, 1, TRUE, 1) }

\* The reviewers runVoting evaluates for a tier.
ReviewersOf(tier) ==
    IF tier = "light" THEN << "comprehensive" >>
    ELSE SliceFromStart(GUARDIANS, policies.voting.fullVote.guardians)

\* The handler of invocation h up to its await or, on the fast lane, to its
\* return.
HandlerStarts(h, ev) ==
    LET r == assessRisk(ev.toolName, ev.params, policies)
        eff == EffectiveRisk(r, policies, consecutiveApprovals)
        entry == writeAuditEntry(lastHash, now, ev.toolName, ev.params, r,
                                 << >>, TRUE, [text |-> "Fast lane"])
        started == [IdleHandler EXCEPT !.event = ev, !.risk = r,
                                       !.effectiveRisk = eff]
    IN /\ h \in DOMAIN handlers
       /\ handlers[h].pc = "idle"
       /\ \A g \in 1..(h - 1) : handlers[g].pc # "idle"
       /\ IF eff.tier = "fast"
          THEN /\ AppendAudit(entry)
               /\ handlers' = [handlers EXCEPT ![h] =
                     [started EXCEPT !.pc = "done", !.decision = << PassThrough >>,
                                     !.entry = << entry >>]]
          ELSE /\ handlers' = [handlers EXCEPT ![h] =
                     [started EXCEPT !.pc = "awaiting"]]
               /\ UNCHANGED << lastHash, logFile, now, lostEntries, logExists, auditEntry >>
       /\ UNCHANGED << policies, consecutiveApprovals, storageOk, hPc, event, risk,
                       effectiveRisk, rvPc, rvArgs, selectedGuardians, llmCalls,
                       votes, rejectCount, result, decision, ncalls, llmReady,
                       mvPc, mvArgs, mvCalls, mvResult, verifyResult, tamperedAt,
                       blCommand, blPc, blMatch, ruleMatch >>

\* runVoting of invocation h resolves: its reviewers came back with outs and
\* completed in the given order.
ReviewResolves(h, order, outs) ==
    LET hd == handlers[h]
        sel == ReviewersOf(hd.effectiveRisk.tier)
        vs == [k \in 1..Len(sel) |->
                  evaluateGuardian(sel[order[k]], hd.event.toolName,
                                   hd.event.params, outs[order[k]])]
        res == IF hd.effectiveRisk.tier = "light" THEN LightVoteResult(vs[1])
               ELSE FullVoteResult(vs, policies.voting.fullVote)
    IN /\ h \in DOMAIN handlers
       /\ hd.pc = "awaiting"
       /\ DOMAIN order = 1..Len(sel)
       /\ DOMAIN outs = 1..Len(sel)
       /\ handlers' = [handlers EXCEPT ![h] =
             [hd EXCEPT !.pc = "resolved", !.result = res]]
       /\ UNCHANGED << policies, consecutiveApprovals, lastHash, logFile, storageOk,
                       now, hPc, event, risk, effectiveRisk, rvPc, rvArgs,
                       selectedGuardians, llmCalls, votes, rejectCount, result,
                       decision, auditEntry, ncalls, llmReady, mvPc, mvArgs,
                       mvCalls, mvResult, lostEntries, logExists, verifyResult, tamperedAt,
                       blCommand, blPc, blMatch, ruleMatch >>

\* The handler of invocation h after `await runVoting(...)`.
HandlerResumes(h) ==
    LET hd == handlers[h]
        entry == writeAuditEntry(lastHash, now, hd.event.toolName, hd.event.params,
                                 hd.risk, hd.result.votes, hd.result.approved,
                                 hd.result.reason)
    IN /\ h \in DOMAIN handlers
       /\ hd.pc = "resolved"
       /\ consecutiveApprovals' = TrustAfter(consecutiveApprovals, hd.result.approved)
       /\ AppendAudit(entry)
       /\ handlers' = [handlers EXCEPT ![h] =
             [hd EXCEPT !.pc = "done",
                        !.decision = << IF hd.result.approved THEN PassThrough
                                        ELSE BlockDecision(hd.result, hd.risk) >>,
                        !.entry = << entry >>]]
       /\ UNCHANGED << policies, storageOk, hPc, event, risk, effectiveRisk, rvPc,
                       rvArgs, selectedGuardians, llmCalls, votes, rejectCount,
                       result, decision, ncalls, llmReady, mvPc, mvArgs, mvCalls,
                       mvResult, verifyResult, tamperedAt, blCommand, blPc,
                       blMatch, ruleMatch >>

InitConcurrent ==
    /\ policies \in ConcurrentPolicyDocs
    /\ handlers = [h \in 1..MaxHandlers |-> IdleHandler]
    /\ storageOk = TRUE
    /\ consecutiveApprovals = 0
    /\ lastHash = EmptyHash
    /\ logFile = << >>
    /\ now = 0
    /\ hPc = "idle"
    /\ event = NoEvent
    /\ risk = NoRisk
    /\ effectiveRisk = NoRisk
    /\ rvPc = "idle"
    /\ rvArgs = NoArgs
    /\ selectedGuardians = << >>
    /\ llmCalls = << >>
    /\ votes = << >>
    /\ rejectCount = 0
    /\ result = NoResult
    /\ decision = << >>
    /\ auditEntry = << >>
    /\ ncalls = 0
    /\ llmReady = FALSE
    /\ mvPc = "idle"
    /\ mvArgs = NoVoterArgs
    /\ mvCalls = << >>
    /\ mvResult = NoVoteResult
    /\ lostEntries = 0
    /\ logExists = FALSE
    /\ verifyResult = NoVerify
    /\ tamperedAt = 0
    /\ blCommand = << >>
    /\ blPc = "idle"
    /\ blMatch = NoMatch
    /\ ruleMatch = NoMatch

NextConcurrent ==
    \/ \E h \in DOMAIN handlers : \E ev \in ConcurrentEvents : HandlerStarts(h, ev)
    \/ \E h \in { g \in DOMAIN handlers : handlers[g].pc = "awaiting" } :
          LET n == Len(ReviewersOf(handlers[h].effectiveRisk.tier))
          IN \E order \in Permutations(1..n) : \E outs \in [1..n -> LlmOutcomes] :
                ReviewResolves(h, order, outs)
    \/ \E h \in DOMAIN handlers : HandlerResumes(h)

SpecConcurrent == InitConcurrent /\ [][NextConcurrent]_vars

(***************************************************************************)
(* Properties of the gate                                                   *)
(***************************************************************************)
\* The level the exec blacklist gives the command of the current call.
EventLevel == checkExecBlacklist(event.params.command).level

\* The reviewers a full-tier review is configured with.
ConfiguredFull == policies.voting.fullVote.guardians

\* Every vote of the finished review was a rule-based fallback: each
\* external call failed or returned nothing usable.
AllCallsFailed ==
    /\ result.votes # << >>
    /\ \A i \in 1..Len(result.votes) : result.votes[i].method = "rule"

\* C1: an action whose command matches a critical exec rule passes the gate
\* only if every configured full-tier reviewer returned an approving vote; a
\* single non-approving vote blocks it.
C1_CriticalNeedsUnanimity ==
    (hPc = "done" /\ EventLevel = "critical" /\ decision = << PassThrough >>)
        => /\ Len(result.votes) = ConfiguredFull
           /\ \A i \in 1..Len(result.votes) : result.votes[i].approve

\* C2: when every external call of a review fails, the action under review
\* is not approved.
C2_AllCallsFailBlocks ==
    (hPc = "done" /\ effectiveRisk.tier \in {"light", "full"} /\ AllCallsFailed)
        => /\ ~result.approved
           /\ decision # << PassThrough >>

\* C3: an action whose effective tier is fast is approved in the step that
\* receives it, no reviewer is invoked, the vote list is empty, and an audit
\* entry recording the approval is written (and stored when the store
\* accepts the append).
C3_FastLane ==
    /\ (hPc = "awaiting" => effectiveRisk.tier # "fast")
    /\ (hPc = "done" /\ effectiveRisk.tier = "fast") =>
          /\ decision = << PassThrough >>
          /\ selectedGuardians = << >>
          /\ llmCalls = << >>
          /\ votes = << >>
          /\ auditEntry # << >>
          /\ auditEntry[1].approved
          /\ auditEntry[1].votes = << >>
          /\ auditEntry[1].toolName = event.toolName
          /\ auditEntry[1].params.command = event.params.command
          /\ lastHash = auditEntry[1].hash
          /\ storageOk => /\ logFile # << >>
                          /\ logFile[Len(logFile)] = auditEntry[1]

C3_Witness ==
    /\ hPc = "done"
    /\ effectiveRisk.tier = "fast"
    /\ risk.tier = "light"
    /\ storageOk
    /\ Len(logFile) = 2
    /\ logFile[2].votes = << >>

\* C8: the trust counter changes only in the step that ends a reviewed
\* decision, where it becomes one more on approval and zero on rejection; a
\* fast-lane decision leaves it as it was.
C8_TrustCounter ==
    [][ /\ (consecutiveApprovals' # consecutiveApprovals
               => hPc = "awaiting" /\ hPc' = "done")
        /\ (hPc = "awaiting" /\ hPc' = "done")
               => /\ decision' = << PassThrough >>
                     => consecutiveApprovals' = consecutiveApprovals + 1
                  /\ decision' # << PassThrough >>
                     => consecutiveApprovals' = 0
        /\ (hPc # "awaiting" /\ hPc' = "done")
               => consecutiveApprovals' = consecutiveApprovals ]_vars

C8_Witness ==
    /\ hPc = "done"
    /\ ncalls = 2
    /\ consecutiveApprovals = 0
    /\ effectiveRisk.tier # "fast"
    /\ decision # << PassThrough >>
    /\ storageOk
    /\ logFile[1].approved
    /\ logFile[1].votes # << >>

\* One tier lower, with fast as the floor.
StepDown(tier) ==
    IF tier = "full" THEN "light" ELSE "fast"

TierRank(tier) ==
    IF tier = "full" THEN 3 ELSE IF tier = "light" THEN 2 ELSE 1

\* C9: when a call is received, its effective tier is the scored tier while
\* the trust budget is disabled or the counter is below autoDowngradeAfter,
\* and exactly one tier lower (fast stays fast) once the counter has reached
\* it; it is never higher than the scored tier, and it is the tier the
\* review runs at.
C9_EffectiveTier ==
    [][ ncalls' = ncalls + 1 =>
          LET reached ==
                  /\ policies.trustBudget.enabled
                  /\ consecutiveApprovals >= policies.trustBudget.autoDowngradeAfter
          IN /\ risk'.tier \in {"fast", "light", "full"}
             /\ ~reached => effectiveRisk'.tier = risk'.tier
             /\ reached => effectiveRisk'.tier = StepDown(risk'.tier)
             /\ TierRank(effectiveRisk'.tier) <= TierRank(risk'.tier)
             /\ effectiveRisk'.score = risk'.score
             /\ hPc' = "awaiting" => rvPc' = effectiveRisk'.tier
             /\ hPc' = "done" => effectiveRisk'.tier = "fast" ]_vars

C9_Witness ==
    /\ hPc = "awaiting"
    /\ policies.trustBudget.enabled
    /\ consecutiveApprovals = policies.trustBudget.autoDowngradeAfter
    /\ risk.tier = "full"
    /\ effectiveRisk.tier = "light"
    /\ rvPc = "light"

\* C10: the trust budget never lowers the review of an action whose command
\* matches a critical blacklist pattern: whatever the counter, its effective
\* tier is its scored tier.
C10_CriticalNotDowngraded ==
    (hPc \in {"awaiting", "done"} /\ EventLevel = "critical")
        => effectiveRisk.tier = risk.tier

\* The positions of the approving votes of a vote list.
Approving(vs) == {i \in 1..Len(vs) : vs[i].approve}
Confirming(vs) == {i \in 1..Len(vs) : vs[i].confirmed}

\* C4: a full-tier review is approved exactly when the number of approving
\* votes is at least the configured threshold, whatever the votes and the
\* order in which the reviewers completed (runVoting and multiVote).
C4_ThresholdDecides ==
    /\ (rvPc = "returned" /\ rvArgs.risk.tier = "full") =>
          /\ result.tier = "full"
          /\ result.votes = votes
          /\ result.approved
                <=> Cardinality(Approving(result.votes))
                       >= policies.voting.fullVote.threshold
    /\ (mvPc = "returned" /\ mvArgs.fn = "multiVote") =>
          (mvResult.confirmed
              <=> Cardinality(Confirming(mvResult.votes)) >= mvArgs.threshold)

C4_Witness ==
    /\ rvPc = "returned"
    /\ rvArgs.risk.tier = "full"
    /\ result.approved
    /\ Len(result.votes) = 4
    /\ Cardinality(Approving(result.votes)) = 3
    /\ policies.voting.fullVote.threshold = 3
    /\ result.votes[1].guardian = "reversibility"
    /\ ~result.votes[2].approve

\* C5: a light-tier review evaluates exactly one reviewer, the comprehensive
\* one; its result carries exactly that one vote and is approved exactly
\* when the vote approves.
C5_LightReview ==
    /\ (rvPc = "light") =>
          /\ selectedGuardians = << "comprehensive" >>
          /\ Len(llmCalls) = 1
          /\ Len(votes) <= 1
    /\ (rvPc = "returned" /\ rvArgs.risk.tier = "light") =>
          /\ selectedGuardians = << "comprehensive" >>
          /\ Len(llmCalls) = 1
          /\ result.tier = "light"
          /\ Len(result.votes) = 1
          /\ result.votes[1].guardian = "comprehensive"
          /\ result.approved = result.votes[1].approve

C5_Witness ==
    /\ rvPc = "returned"
    /\ rvArgs.risk.tier = "light"
    /\ ~result.approved
    /\ result.votes[1].method = "llm"

\* C6: a full-tier review computes its decision only after every reviewer
\* has resolved, and the returned votes hold exactly one vote per configured
\* reviewer: N votes for N configured reviewers.
C6_OneVotePerConfiguredReviewer ==
    /\ (rvPc = "full") => result = NoResult
    /\ (rvPc = "returned" /\ rvArgs.risk.tier = "full") =>
          /\ Len(result.votes) = ConfiguredFull
          /\ \A i, j \in 1..Len(result.votes) :
                result.votes[i].guardian = result.votes[j].guardian => i = j
    /\ (mvPc = "multi") => mvResult = NoVoteResult
    /\ (mvPc = "returned" /\ mvArgs.fn = "multiVote") =>
          /\ Len(mvResult.votes) = mvArgs.count
          /\ \A i \in 1..Len(mvResult.votes) : mvResult.votes[i].voter = i

\* C7: an action that has entered review eventually gets its decision,
\* exactly one of pass and block, although a reviewer's external call may
\* never be answered: the call's own timer turns it into a fallback vote.
C7_ReviewConcludes ==
    (hPc = "awaiting") ~>
        (/\ hPc = "done"
         /\ Len(decision) = 1
         /\ decision[1].block = ~result.approved
         /\ AllSettled)

C7_Witness ==
    /\ hPc = "done"
    /\ Len(decision) = 1
    /\ effectiveRisk.tier = "full"
    /\ Len(result.votes) = 2
    /\ result.votes[1].method = "rule"
    /\ result.votes[2].method = "llm"

(***************************************************************************)
(* The audit log driven directly: writeAuditEntry calls, restarts of the    *)
(* process (initAuditLog), storage that fails and recovers, alteration of   *)
(* one stored entry, and verifyAuditChain.  The store starts missing or     *)
(* empty.                                                                   *)
(***************************************************************************)
\* Arguments the handler passes to writeAuditEntry: a fast-lane pass and the
\* outcomes of a light review.
AuditCalls ==
    LET Args(ev, vs, approved, reason) ==
           [ toolName |-> ev.toolName, params |-> ev.params,
             risk |-> assessRisk(ev.toolName, ev.params, DefaultPolicies),
             votes |-> vs, approved |-> approved, reason |-> reason ]
        Reviewed(ev, outcome) ==
           LET res == LightVoteResult(evaluateGuardian("comprehensive", ev.toolName,
                                                       ev.params, outcome))
           IN Args(ev, res.votes, res.approved, res.reason)
    IN { Args(ev, << >>, TRUE, [text |-> "Fast lane"]) :
            ev \in { e \in Events : e.params.command = << "ls_tmp" >> } }
       \cup { Reviewed(ev, outcome) :
                 ev \in { e \in Events : e.params.command = << "rm_etc" >> },
                 outcome \in {"approve_true", "fetch_error"} }

\* initAuditLog, called at plugin start-up: a restart of the process.
InitAuditLog ==
    /\ lastHash' = recoverLastHash(logExists, logFile)
    /\ auditEntry' = << >>
    /\ verifyResult' = NoVerify
    /\ UNCHANGED << policies, handlers, tamperedAt, blCommand, blPc, blMatch,
                    ruleMatch, lostEntries, logExists, consecutiveApprovals, logFile,
                    storageOk, now, hPc, event, risk, effectiveRisk, rvPc, rvArgs,
                    selectedGuardians, llmCalls, votes, rejectCount, result,
                    decision, ncalls, llmReady, mvPc, mvArgs, mvCalls, mvResult >>

\* One call of writeAuditEntry.
WriteAuditEntryCall(a) ==
    /\ now < MaxWrites
    /\ AppendAudit(writeAuditEntry(lastHash, now, a.toolName, a.params, a.risk,
                                   a.votes, a.approved, a.reason))
    /\ verifyResult' = NoVerify
    /\ UNCHANGED << policies, handlers, tamperedAt, blCommand, blPc, blMatch,
                    ruleMatch, consecutiveApprovals, storageOk, hPc, event, risk,
                    effectiveRisk, rvPc, rvArgs, selectedGuardians, llmCalls,
                    votes, rejectCount, result, decision, ncalls, llmReady, mvPc,
                    mvArgs, mvCalls, mvResult >>

\* appendFileSync starts or stops throwing.
StorageChanges ==
    /\ storageOk' = ~storageOk
    /\ UNCHANGED << policies, handlers, verifyResult, tamperedAt, blCommand, blPc,
                    blMatch, ruleMatch, lostEntries, logExists,
                    consecutiveApprovals, lastHash, logFile, now, hPc, event, risk,
                    effectiveRisk, rvPc, rvArgs, selectedGuardians, llmCalls,
                    votes, rejectCount, result, decision, auditEntry, ncalls,
                    llmReady, mvPc, mvArgs, mvCalls, mvResult >>

\* The values a forger may put in place of a hash or prevHash of line i.
OtherHashes(i) ==
    { EmptyHash, computeHash([HashInput(logFile[i]) EXCEPT !.toolName = "forged"]) }
       \cup { logFile[j].hash : j \in 1..Len(logFile) }

\* Somebody alters one field of stored line i (counted from 1).
Tamper(i, field, value) ==
    /\ tamperedAt = 0
    /\ i \in 1..Len(logFile)
    /\ \/ /\ field = "approved"
          /\ value = ~logFile[i].approved
          /\ logFile' = [logFile EXCEPT ![i].approved = value]
       \/ /\ field = "hash"
          /\ value \in OtherHashes(i) \ { logFile[i].hash }
          /\ logFile' = [logFile EXCEPT ![i].hash = value]
       \/ /\ field = "prevHash"
          /\ value \in OtherHashes(i) \ { logFile[i].prevHash }
          /\ logFile' = [logFile EXCEPT ![i].prevHash = value]
    /\ tamperedAt' = i
    /\ verifyResult' = NoVerify
    /\ UNCHANGED << policies, handlers, blCommand, blPc, blMatch, ruleMatch,
                    lostEntries, logExists, consecutiveApprovals, lastHash,
                    storageOk, now, hPc, event, risk, effectiveRisk, rvPc, rvArgs,
                    selectedGuardians, llmCalls, votes, rejectCount, result,
                    decision, auditEntry, ncalls, llmReady, mvPc, mvArgs, mvCalls,
                    mvResult >>

\* One call of verifyAuditChain.
VerifyAuditChain ==
    /\ verifyResult' = verifyAuditChain(logExists, logFile)
    /\ UNCHANGED << policies, handlers, tamperedAt, blCommand, blPc, blMatch,
                    ruleMatch, lostEntries, logExists, consecutiveApprovals,
                    lastHash, logFile, storageOk, now, hPc, event, risk,
                    effectiveRisk, rvPc, rvArgs, selectedGuardians, llmCalls,
                    votes, rejectCount, result, decision, auditEntry, ncalls,
                    llmReady, mvPc, mvArgs, mvCalls, mvResult >>

InitAudit ==
    /\ policies = DefaultPolicies
    /\ handlers = << >>
    /\ storageOk \in BOOLEAN
    /\ logExists \in BOOLEAN
    /\ consecutiveApprovals = 0
    /\ lastHash = EmptyHash
    /\ logFile = << >>
    /\ now = 0
    /\ hPc = "idle"
    /\ event = NoEvent
    /\ risk = NoRisk
    /\ effectiveRisk = NoRisk
    /\ rvPc = "idle"
    /\ rvArgs = NoArgs
    /\ selectedGuardians = << >>
    /\ llmCalls = << >>
    /\ votes = << >>
    /\ rejectCount = 0
    /\ result = NoResult
    /\ decision = << >>
    /\ auditEntry = << >>
    /\ ncalls = 0
    /\ llmReady = FALSE
    /\ mvPc = "idle"
    /\ mvArgs = NoVoterArgs
    /\ mvCalls = << >>
    /\ mvResult = NoVoteResult
    /\ lostEntries = 0
    /\ verifyResult = NoVerify
    /\ tamperedAt = 0
    /\ blCommand = << >>
    /\ blPc = "idle"
    /\ blMatch = NoMatch
    /\ ruleMatch = NoMatch

NextAudit ==
    \/ InitAuditLog
    \/ \E a \in AuditCalls : WriteAuditEntryCall(a)
    \/ StorageChanges
    \/ \E i \in 1..Len(logFile) :
          \/ \E value \in BOOLEAN : Tamper(i, "approved", value)
          \/ \E field \in {"hash", "prevHash"} :
                \E value \in OtherHashes(i) : Tamper(i, field, value)
    \/ VerifyAuditChain

SpecAudit == InitAudit /\ [][NextAudit]_vars

(***************************************************************************)
(* Concurrent invocations.                                                  *)
(***************************************************************************)
\* The invocations that went through a review and have returned.
ReviewedDone ==
    { h \in DOMAIN handlers :
         handlers[h].pc = "done" /\ handlers[h].effectiveRisk.tier # "fast" }

\* The clock reading at which invocation h completed: its entry's timestamp.
CompletedAt(h) == handlers[h].entry[1].timestamp

\* h is a reviewed rejection, and none completed after it.
IsLastRejection(h) ==
    /\ h \in ReviewedDone
    /\ ~handlers[h].result.approved
    /\ \A g \in ReviewedDone :
          ~handlers[g].result.approved => CompletedAt(g) <= CompletedAt(h)

ApprovalsSinceLastRejection ==
    { h \in ReviewedDone :
         /\ handlers[h].result.approved
         /\ \A g \in ReviewedDone :
               IsLastRejection(g) => CompletedAt(g) < CompletedAt(h) }

\* C11: whatever the interleaving of the invocations in flight, the trust
\* counter equals the number of reviewed approvals that completed after the
\* last completed reviewed rejection (all of them when there was none; the
\* counter starts at zero), so no update of it is lost.
C11_NoLostUpdate ==
    consecutiveApprovals = Cardinality(ApprovalsSinceLastRejection)

C11_Witness ==
    /\ \A h \in DOMAIN handlers : handlers[h].pc = "done"
    /\ ReviewedDone = DOMAIN handlers
    /\ CompletedAt(2) < CompletedAt(1)
    /\ \A h \in DOMAIN handlers : handlers[h].result.approved
    /\ consecutiveApprovals = Cardinality(DOMAIN handlers)

\* C15: no two audit entries are created with the same prevHash, and the
\* entries in the store form one chain: each one's prevHash is the hash of the
\* one before it, the first one's is empty, and the cursor is the last hash.
C15_ChainNeverForks ==
    /\ \A g, h \in DOMAIN handlers :
          (g # h /\ handlers[g].pc = "done" /\ handlers[h].pc = "done")
             => handlers[g].entry[1].prevHash # handlers[h].entry[1].prevHash
    /\ \A i \in 1..Len(logFile) :
          logFile[i].prevHash = IF i = 1 THEN EmptyHash ELSE logFile[i - 1].hash
    /\ lastHash = IF logFile = << >> THEN EmptyHash ELSE logFile[Len(logFile)].hash

C15_Witness ==
    /\ \A h \in DOMAIN handlers : handlers[h].pc = "done"
    /\ ReviewedDone = DOMAIN handlers
    /\ CompletedAt(2) < CompletedAt(1)
    /\ handlers[1].entry[1].prevHash = handlers[2].entry[1].hash
    /\ Len(logFile) = Cardinality(DOMAIN handlers)


(***************************************************************************)
(* The hash chain.                                                          *)
(***************************************************************************)
\* C12: the entry a writeAuditEntry call returns has as prevHash the hash of
\* the entry the preceding call returned, or, for the first call after
\* initAuditLog, the hash recovered from the store (empty for an empty or
\* missing store); its hash is the digest of its own content, prevHash
\* included; and the cursor moves to that hash.
C12_EntryLinksToPrevious ==
    [][ now' = now + 1 =>
           /\ auditEntry' # << >>
           /\ auditEntry'[1].prevHash =
                 IF auditEntry # << >> THEN auditEntry[1].hash ELSE lastHash
           /\ (auditEntry = << >> /\ tamperedAt = 0)
                 => auditEntry'[1].prevHash = recoverLastHash(logExists, logFile)
           /\ auditEntry'[1].hash = computeHash(HashInput(auditEntry'[1]))
           /\ lastHash' = auditEntry'[1].hash ]_vars

C12_Witness ==
    /\ now = MaxWrites
    /\ auditEntry # << >>
    /\ lostEntries = 1
    /\ Len(logFile) = 2
    /\ auditEntry[1].prevHash = logFile[1].hash
    /\ auditEntry[1].prevHash # EmptyHash
    /\ logFile[2] = auditEntry[1]

\* C13: with a store that started empty or missing, no write that failed and
\* no entry altered, verifyAuditChain answers valid with as many entries as
\* writeAuditEntry was called, however many restarts lay in between.
C13_VerifyAfterWrites ==
    (verifyResult # NoVerify /\ lostEntries = 0 /\ tamperedAt = 0)
       => verifyResult.valid /\ verifyResult.entries = now

\* The same once the log file exists.
VerifyAfterWrites_FileExists ==
    (verifyResult # NoVerify /\ lostEntries = 0 /\ tamperedAt = 0 /\ logExists)
       => verifyResult.valid /\ verifyResult.entries = now

\* C14: after one field of one stored entry of an intact chain was altered,
\* verifyAuditChain answers invalid, and brokenAt is the smallest index whose
\* link or recomputed hash fails, which is the index of the altered entry or
\* the one after it.
LineFails(i) ==
    \/ logFile[i].prevHash # (IF i = 1 THEN EmptyHash ELSE logFile[i - 1].hash)
    \/ logFile[i].hash # computeHash(HashInput(logFile[i]))

DecisionFor(eff, res, riskArg) ==
    IF eff.tier = "fast" \/ res.approved THEN PassThrough
    ELSE BlockDecision(res, riskArg)

\* C16: whether the append to the store succeeds or fails, writeAuditEntry
\* returns the entry and the handler returns the decision that follows from
\* the review: pass or block, with the same reason.
C16_WriteFailureSwallowed ==
    hPc = "done" =>
       /\ auditEntry # << >>
       /\ auditEntry[1].hash = lastHash
       /\ decision = << DecisionFor(effectiveRisk, result, risk) >>
       /\ ~storageOk => logFile = << >> /\ lostEntries = ncalls

C16_Witness ==
    /\ hPc = "done"
    /\ ~storageOk
    /\ ncalls = 2
    /\ lostEntries = 2
    /\ auditEntry # << >>
    /\ ~auditEntry[1].approved
    /\ decision # << PassThrough >>
    /\ decision[1].block
    /\ decision[1].blockReason[1].reason = result.reason

\* The step in which a before_tool_call invocation returns.
HandlerReturns == hPc' = "done" /\ (hPc = "awaiting" \/ ncalls' = ncalls + 1)

\* C17: the step in which an invocation returns, whether as a fast-lane pass,
\* a reviewed approval or a block, makes exactly one writeAuditEntry call (one
\* line more in the store when the store accepts the append), and the entry's
\* approved flag and votes are the decision and the votes of the review; no
\* other step writes.
C17_OneEntryPerDecision ==
    [][ /\ HandlerReturns =>
              /\ now' = now + 1
              /\ auditEntry' # << >>
              /\ auditEntry'[1].approved = (decision' = << PassThrough >>)
              /\ auditEntry'[1].approved = ~decision'[1].block
              /\ auditEntry'[1].votes =
                    IF effectiveRisk'.tier = "fast" THEN << >> ELSE result'.votes
              /\ auditEntry'[1].toolName = event'.toolName
              /\ auditEntry'[1].params.command = event'.params.command
              /\ storageOk => logFile' = Append(logFile, auditEntry'[1])
        /\ ~HandlerReturns => (now' = now /\ logFile' = logFile) ]_vars

C17_Witness ==
    /\ hPc = "done"
    /\ storageOk
    /\ ncalls = 2
    /\ Len(logFile) = 2
    /\ logFile[2] = auditEntry[1]
    /\ logFile[1].approved
    /\ ~logFile[2].approved
    /\ logFile[2].votes # << >>
    /\ logFile[2].votes = result.votes
    /\ decision[1].block


(***************************************************************************)
(* The blacklist called directly: checkExecBlacklist and matchRules applied *)
(* to a command drawn from bounded families of token sequences.             *)
(***************************************************************************)
SeqsUpTo(S, n) == UNION { [1..k -> S] : k \in 1..n }

\* The quoting state of a POSIX shell after the first n tokens of a text.
RECURSIVE QuoteState(_, _)
QuoteState(text, n) ==
    IF n = 0 THEN "none"
    ELSE LET before == QuoteState(text, n - 1)
         IN IF text[n] = "dq" /\ before # "single"
            THEN (IF before = "double" THEN "none" ELSE "double")
            ELSE IF text[n] = "sq" /\ before # "double"
            THEN (IF before = "single" THEN "none" ELSE "single")
            ELSE before

\* Every quote of the text is closed.
Balanced(text) == QuoteState(text, Len(text)) = "none"

PayloadTokens == {"rm_etc", "echo", "word", "dq", "sq", "semi"}
TextTokens == {"dq", "sq", "rm_etc", "hash"}

\* Commands a caller may want to hand to a shell.
Payloads == { p \in SeqsUpTo(PayloadTokens, MaxPayload) : Balanced(p) }

\* p as the argument of `bash -c`, in double quotes with the double quotes of
\* p escaped, or in single quotes when p has none.
EscapeDouble(p) == [i \in 1..Len(p) |-> IF p[i] = "dq" THEN "esc_dq" ELSE p[i]]
WrapDouble(p) == << "bash_c", "dq" >> \o EscapeDouble(p) \o << "dq" >>
WrapSingle(p) == << "bash_c", "sq" >> \o p \o << "sq" >>

WrappedPayloads ==
    { WrapDouble(p) : p \in Payloads }
       \cup { WrapSingle(p) : p \in { q \in Payloads : \A i \in 1..Len(q) : q[i] # "sq" } }

\* Commands of several segments, with pipes into a shell.
CommandTokens ==
    {"rm_etc", "sudo_apt", "stop_sshd", "echo", "ls_tmp", "pipe", "bash", "opt_s",
     "semi"}
Commands_Piped == SeqsUpTo(CommandTokens, MaxPayload)

\* Inline code handed to an interpreter, in quotes of either kind.
InlineTokens == {"rm_etc", "sudo_apt", "sq", "dq", "esc_dq", "hash", "pipe"}
InlineCommands ==
    { << "python_c", "dq" >> \o code \o << "dq" >> :
         code \in { c \in SeqsUpTo(InlineTokens, MaxPayload) :
                       \A i \in 1..Len(c) : c[i] # "dq" } }
       \cup { << "python_c", "sq" >> \o code \o << "sq" >> :
                 code \in { c \in SeqsUpTo(InlineTokens, MaxPayload) :
                               \A i \in 1..Len(c) : c[i] # "sq" } }

\* Wrappers inside wrappers: the innermost in single quotes, each further one
\* in double quotes with the double quotes inside it escaped.
MaxDepth == 3
RECURSIVE Nest(_, _)
Nest(p, depth) == IF depth <= 1 THEN WrapSingle(p) ELSE WrapDouble(Nest(p, depth - 1))
NestedTokens == {"rm_etc", "sudo_apt", "word", "semi"}
NestedWrappers ==
    { Nest(p, depth) : p \in SeqsUpTo(NestedTokens, 2), depth \in 1..MaxDepth }
       \cup { Nest(p, depth) \o << "semi" >> \o Nest(q, 1) :
                p \in {<< "word" >>}, q \in SeqsUpTo(NestedTokens, 1),
                depth \in 1..MaxDepth }
       \cup { Nest(p, 1) \o << "semi" >> \o q :
                p \in SeqsUpTo(NestedTokens, 1), q \in SeqsUpTo(NestedTokens, 1) }

\* File paths handed to checkPathBlacklist, the empty path included.
PathTokens ==
    {"/etc/passwd", "/etc/hosts", "/boot/grub.cfg", "/root/.bashrc", "/tmp/notes.txt"}
FilePaths == {<< >>} \cup {<< t >> : t \in PathTokens}

BlacklistInputs ==
    Payloads \cup WrappedPayloads \cup SeqsUpTo(TextTokens, MaxText)
       \cup Commands_Piped \cup InlineCommands \cup FilePaths \cup NestedWrappers

\* One call of checkExecBlacklist(command).
CheckExecBlacklist ==
    /\ blPc = "idle"
    /\ blMatch' = checkExecBlacklist(blCommand)
    /\ blPc' = "checkExec"
    /\ UNCHANGED << policies, handlers, verifyResult, tamperedAt, blCommand,
                    ruleMatch, lostEntries, logExists, consecutiveApprovals,
                    lastHash, logFile, storageOk, now, hPc, event, risk,
                    effectiveRisk, rvPc, rvArgs, selectedGuardians, llmCalls,
                    votes, rejectCount, result, decision, auditEntry, ncalls,
                    llmReady, mvPc, mvArgs, mvCalls, mvResult >>

\* One call of checkPathBlacklist(filePath).
CheckPathBlacklist ==
    /\ blPc = "idle"
    /\ blCommand \in FilePaths
    /\ blMatch' = checkPathBlacklist(blCommand)
    /\ blPc' = "checkPath"
    /\ UNCHANGED << policies, handlers, verifyResult, tamperedAt, blCommand,
                    ruleMatch, lostEntries, logExists, consecutiveApprovals,
                    lastHash, logFile, storageOk, now, hPc, event, risk,
                    effectiveRisk, rvPc, rvArgs, selectedGuardians, llmCalls,
                    votes, rejectCount, result, decision, auditEntry, ncalls,
                    llmReady, mvPc, mvArgs, mvCalls, mvResult >>

\* One call of matchRules(text, rules, level).
MatchRules(rules, level) ==
    /\ blPc = "idle"
    /\ ruleMatch' = matchRules(blCommand, rules, level)
    /\ blPc' = "matchRules"
    /\ UNCHANGED << policies, handlers, verifyResult, tamperedAt, blCommand,
                    blMatch, lostEntries, logExists, consecutiveApprovals,
                    lastHash, logFile, storageOk, now, hPc, event, risk,
                    effectiveRisk, rvPc, rvArgs, selectedGuardians, llmCalls,
                    votes, rejectCount, result, decision, auditEntry, ncalls,
                    llmReady, mvPc, mvArgs, mvCalls, mvResult >>

InitBlacklist ==
    /\ blCommand \in BlacklistInputs
    /\ blPc = "idle"
    /\ blMatch = NoMatch
    /\ ruleMatch = NoMatch
    /\ policies = DefaultPolicies
    /\ handlers = << >>
    /\ storageOk = TRUE
    /\ logExists = FALSE
    /\ consecutiveApprovals = 0
    /\ lastHash = EmptyHash
    /\ logFile = << >>
    /\ now = 0
    /\ hPc = "idle"
    /\ event = NoEvent
    /\ risk = NoRisk
    /\ effectiveRisk = NoRisk
    /\ rvPc = "idle"
    /\ rvArgs = NoArgs
    /\ selectedGuardians = << >>
    /\ llmCalls = << >>
    /\ votes = << >>
    /\ rejectCount = 0
    /\ result = NoResult
    /\ decision = << >>
    /\ auditEntry = << >>
    /\ ncalls = 0
    /\ llmReady = FALSE
    /\ mvPc = "idle"
    /\ mvArgs = NoVoterArgs
    /\ mvCalls = << >>
    /\ mvResult = NoVoteResult
    /\ lostEntries = 0
    /\ verifyResult = NoVerify
    /\ tamperedAt = 0

NextBlacklist ==
    \/ CheckExecBlacklist
    \/ CheckPathBlacklist
    \/ MatchRules(CRITICAL_EXEC, "critical")
    \/ MatchRules(WARNING_EXEC, "warning")

SpecBlacklist == InitBlacklist /\ [][NextBlacklist]_vars

(***************************************************************************)
(* Whitelist, wrappers and quoting.                                         *)
(***************************************************************************)
\* C18: a segment that matches a SAFE_EXEC pattern yields no match of its
\* own, neither unwrapped nor against the critical and warning rules,
\* whatever rule its text matches; a command of such segments that is no pipe
\* attack passes.
C18_WhitelistPrecedence ==
    blPc = "checkExec" =>
       LET segments == splitCommand(blCommand)
       IN /\ \A k \in 1..Len(segments) :
                MatchesSafeExec(segments[k])
                   => /\ MatchSegment(segments[k]) = NoMatch
                      /\ UnwrapSegment(segments[k]) = NoMatch
          /\ ( /\ \A k \in 1..Len(segments) : MatchesSafeExec(segments[k])
               /\ matchRules(blCommand, PIPE_ATTACKS, "critical") = NoMatch )
                => blMatch = NoMatch

C18_Witness ==
    /\ blPc = "checkExec"
    /\ blCommand = << "echo", "rm_etc" >>
    /\ matchRules(blCommand, CRITICAL_EXEC, "critical").level = "critical"
    /\ blMatch = NoMatch

\* The payload of a command built by WrapDouble or WrapSingle.
IsWrapped(cmd) == Len(cmd) >= 3 /\ cmd[1] = "bash_c"
PayloadOf(cmd) ==
    [i \in 1..(Len(cmd) - 3) |-> IF cmd[i + 2] = "esc_dq" THEN "dq" ELSE cmd[i + 2]]

\* C19: a payload handed to `bash -c` in quotes is classified as the payload
\* alone is: no match when the payload alone has none (a wrapped safe command
\* passes), else the same level and rule with the reason extended by the
\* wrapper annotation.
C19_WrapperTransparent ==
    (blPc = "checkExec" /\ IsWrapped(blCommand)) =>
       LET alone == checkExecBlacklist(PayloadOf(blCommand))
       IN IF alone.level = "none" THEN blMatch = NoMatch
          ELSE blMatch = [alone EXCEPT !.reason = Append(@, "via shell wrapper")]

\* The same for payloads without a double quote.
WrapperTransparent_NoDoubleQuote ==
    ( /\ blPc = "checkExec"
      /\ IsWrapped(blCommand)
      /\ \A i \in 1..Len(PayloadOf(blCommand)) : PayloadOf(blCommand)[i] # "dq" ) =>
       LET alone == checkExecBlacklist(PayloadOf(blCommand))
       IN IF alone.level = "none" THEN blMatch = NoMatch
          ELSE blMatch = [alone EXCEPT !.reason = Append(@, "via shell wrapper")]

\* The occurrence at place idx lies inside a quoted substring that is closed
\* further on.
InsideBalancedQuotes(text, idx) ==
    /\ QuoteState(text, idx - 1) # "none"
    /\ \E j \in (idx + 1)..Len(text) : QuoteState(text, j) = "none"

\* The occurrence at place idx comes after a # on its line.
AfterCommentMarker(text, idx) ==
    \E j \in LineStart(text, idx)..(idx - 1) : text[j] = "hash"

\* C20: the rule matchRules returns has its occurrence neither inside a
\* balanced quoted substring nor after a comment marker on the same line.
C20_QuotedNeverMatches ==
    (blPc = "matchRules" /\ ruleMatch.level # "none") =>
       LET idx == MatchIndex(ruleMatch.pattern, blCommand)
       IN /\ ~InsideBalancedQuotes(blCommand, idx)
          /\ ~AfterCommentMarker(blCommand, idx)

\* The comment half of it.
CommentedNeverMatches ==
    (blPc = "matchRules" /\ ruleMatch.level # "none") =>
       ~AfterCommentMarker(blCommand, MatchIndex(ruleMatch.pattern, blCommand))


(***************************************************************************)
(* Pipes into a shell.                                                      *)
(***************************************************************************)
\* The command has an unquoted pipe whose right-hand side is a shell
\* interpreter: the shell runs what the left-hand side prints.
PipesIntoShell(text) ==
    \E j \in 2..(Len(text) - 1) :
       /\ text[j] = "pipe"
       /\ QuoteState(text, j) = "none"
       /\ text[j + 1] = "bash"
       /\ j + 2 <= Len(text) => text[j + 2] \in {"opt_s"} \cup Separators

\* C21: a command that pipes output into a shell interpreter is classified
\* critical, whatever its segments are when taken alone.
C21_PipeToShellCritical ==
    (blPc = "checkExec" /\ PipesIntoShell(blCommand)) => blMatch.level = "critical"

\* The same for a shell that is the last word of the command or is followed
\* by an operator, in a command without quotes and comment markers.
PipeToBareShellCritical ==
    ( /\ blPc = "checkExec"
      /\ \A i \in 1..Len(blCommand) : blCommand[i] \notin {"dq", "sq", "esc_dq", "hash"}
      /\ \E j \in 2..(Len(blCommand) - 1) :
            /\ blCommand[j] = "pipe"
            /\ blCommand[j + 1] = "bash"
            /\ j + 2 <= Len(blCommand) => blCommand[j + 2] \in Separators ) =>
       /\ blMatch.level = "critical"
       /\ blMatch.pattern.set = "PIPE_ATTACKS"


(***************************************************************************)
(* Interpreter inline code.                                                 *)
(***************************************************************************)
\* The rules of a list whose pattern occurs somewhere in a text.
RulesOccurring(text, rules) ==
    { k \in 1..Len(rules) : \E i \in 1..Len(text) : rules[k] \in TokenRules(text[i]) }

\* The command is one segment that runs inline code in an interpreter.
IsInlineSegment(cmd) ==
    /\ splitCommand(cmd) = << cmd >>
    /\ extractInterpreterPayload(cmd) # << >>

\* C22: for a segment that hands quoted inline code to an interpreter, a
\* critical or warning rule whose pattern occurs anywhere in the code yields
\* a match, quoted or commented inside the code or not: critical when a
\* critical rule occurs, else warning, the first such rule in declaration
\* order, with the reason annotated as reached via interpreter inline code.
C22_InlineCodeMatchedRaw ==
    (blPc = "checkExec" /\ IsInlineSegment(blCommand)) =>
       LET code == extractInterpreterPayload(blCommand)
           crit == RulesOccurring(code, CRITICAL_EXEC)
           warn == RulesOccurring(code, WARNING_EXEC)
       IN /\ crit # {} =>
               /\ blMatch.level = "critical"
               /\ blMatch.pattern = CRITICAL_EXEC[Min(crit)]
               /\ blMatch.reason = << "rule reason", "via interpreter inline code" >>
          /\ (crit = {} /\ warn # {}) =>
               /\ blMatch.level = "warning"
               /\ blMatch.pattern = WARNING_EXEC[Min(warn)]
               /\ blMatch.reason = << "rule reason", "via interpreter inline code" >>

C22_Witness ==
    /\ blPc = "checkExec"
    /\ blCommand = << "python_c", "dq", "hash", "sq", "rm_etc", "sq", "dq" >>
    /\ isQuotedOrCommented(extractInterpreterPayload(blCommand), 3)
    /\ blMatch.level = "critical"
    /\ blMatch.reason = << "rule reason", "via interpreter inline code" >>

(***************************************************************************)
(* Precedence of the rule sets.                                             *)
(***************************************************************************)
\* The rules of a list whose match in the text, the leftmost occurrence of
\* the pattern, is neither quoted nor commented.
Unsuppressed(text, rules) ==
    {k \in 1..Len(rules) :
        /\ MatchIndex(rules[k], text) # 0
        /\ ~isQuotedOrCommented(text, MatchIndex(rules[k], text))}

\* The answer owed to a text with the given unsuppressed rules.
CriticalFirst(m, crit, warn, critical, warning) ==
    /\ crit # {} => (m.level = "critical" /\ m.pattern = critical[Min(crit)])
    /\ (crit = {} /\ warn # {}) =>
          (m.level = "warning" /\ m.pattern = warning[Min(warn)])
    /\ (crit = {} /\ warn = {}) => m = NoMatch

\* C23: a segment that is not whitelisted, and a file path, with unsuppressed
\* matches of a critical and of a warning rule is classified critical: the
\* critical rules are tested before the warning rules and within a rule set
\* the first rule in declaration order wins; a command of one such segment
\* that phases 1 and 2 let through gets the answer of its segment.
C23_CriticalBeforeWarning ==
    /\ blPc = "checkExec" =>
          LET segments == splitCommand(blCommand)
          IN /\ \A k \in 1..Len(segments) :
                   ~MatchesSafeExec(segments[k]) =>
                      CriticalFirst(MatchSegment(segments[k]),
                                    Unsuppressed(segments[k], CRITICAL_EXEC),
                                    Unsuppressed(segments[k], WARNING_EXEC),
                                    CRITICAL_EXEC, WARNING_EXEC)
             /\ ( /\ Len(segments) = 1
                  /\ ~MatchesSafeExec(segments[1])
                  /\ matchRules(blCommand, PIPE_ATTACKS, "critical") = NoMatch
                  /\ UnwrapSegment(segments[1]) = NoMatch ) =>
                   CriticalFirst(blMatch,
                                 Unsuppressed(segments[1], CRITICAL_EXEC),
                                 Unsuppressed(segments[1], WARNING_EXEC),
                                 CRITICAL_EXEC, WARNING_EXEC)
    /\ blPc = "checkPath" =>
          IF blCommand = << >> THEN blMatch = NoMatch
          ELSE CriticalFirst(blMatch,
                             Unsuppressed(blCommand, CRITICAL_PATH),
                             Unsuppressed(blCommand, WARNING_PATH),
                             CRITICAL_PATH, WARNING_PATH)

\* `sudo apt-get upgrade systemctl stop sshd rm -rf /etc` in one segment: the
\* warning rule matches first in the text and the critical rule declared
\* first wins over the one that matches earlier.
C23_Witness ==
    /\ blPc = "checkExec"
    /\ blCommand = << "sudo_apt", "stop_sshd", "rm_etc" >>
    /\ blMatch.level = "critical"
    /\ blMatch.pattern = CRITICAL_EXEC[1]

\* `/etc/passwd` matches a critical and a warning path rule.
CriticalPathBeforeWarning ==
    (blPc = "checkPath" /\ blCommand = << "/etc/passwd" >>) =>
       (blMatch.level = "critical" /\ blMatch.pattern = CRITICAL_PATH[1])

(***************************************************************************)
(* The decision returned to the host.                                       *)
(***************************************************************************)
\* C24: a returned invocation blocks exactly when it was reviewed and the
\* review's result is not approved, and the block carries a non-empty reason
\* made of the review's reason and the risk score; a fast-lane pass and an
\* approved review return no block decision.
C24_BlockIffNotApproved ==
    hPc = "done" =>
       /\ decision # << >>
       /\ decision[1].block <=> (effectiveRisk.tier # "fast" /\ ~result.approved)
       /\ decision[1].block =>
             /\ decision[1].blockReason # << >>
             /\ decision[1].blockReason[1].text = "Guardian blocked"
             /\ decision[1].blockReason[1].reason = result.reason
             /\ decision[1].blockReason[1].score = risk.score
       /\ ~decision[1].block => decision[1] = PassThrough

C24_Witness ==
    /\ hPc = "done"
    /\ effectiveRisk.tier = "full"
    /\ ~result.approved
    /\ decision[1].block
    /\ decision[1].blockReason # << >>

(***************************************************************************)
(* The tool-level blacklist.                                                *)
(***************************************************************************)
MaxWords == 3

\* Words of an action-like field, separated by white space.
ToolWords == {"DROP", "TABLE", "TRUNCATE", "DELETE", "FROM", "users", "trash", "emptyTrash"}

\* String.prototype.toLowerCase on a word.
toLowerCase(w) ==
    CASE w = "DROP"       -> "drop"
      [] w = "TABLE"      -> "table"
      [] w = "TRUNCATE"   -> "truncate"
      [] w = "DELETE"     -> "delete"
      [] w = "FROM"       -> "from"
      [] w = "emptyTrash" -> "emptytrash"
      [] OTHER            -> w

\* TOOL_RULES in declaration order: the level of each rule.
TOOL_RULES == << "critical", "warning", "critical" >>

\* rule.pattern.exec(actionValue) finds a match, for the k-th rule.
ToolRuleMatches(k, text) ==
    CASE k = 1 -> \E i \in 1..Len(text) :
                     text[i] \in {"batchdelete", "expunge", "emptytrash", "purge"}
      [] k = 2 -> \E i \in 1..Len(text) : text[i] \in {"delete", "trash"}
      [] k = 3 -> \E i \in 1..(Len(text) - 1) :
                     \/ text[i] = "drop" /\ text[i + 1] \in {"database", "table"}
                     \/ text[i] = "truncate"
                     \/ text[i] = "delete" /\ text[i + 1] = "from"

\* A field of params: a string of words, or a value that is not a string.
StringValue(text) == [isString |-> TRUE, text |-> text]
NotAString == [isString |-> FALSE, text |-> << >>]
actionFields == << "action", "method", "command", "operation" >>

RECURSIVE JoinFields(_, _)
JoinFields(params, k) ==
    IF k > Len(actionFields) THEN << >>
    ELSE (IF params[actionFields[k]].isString THEN params[actionFields[k]].text
          ELSE << >>) \o JoinFields(params, k + 1)

checkToolBlacklist(toolName, params) ==
    IF toolName \in {"exec", "write", "edit"} THEN NoMatch
    ELSE IF \A f \in DOMAIN params : ~params[f].isString THEN NoMatch
    ELSE LET joined == JoinFields(params, 1)
             actionValue == [i \in 1..Len(joined) |-> toLowerCase(joined[i])]
             hits == {k \in 1..Len(TOOL_RULES) : ToolRuleMatches(k, actionValue)}
         IN IF hits = {} THEN NoMatch
            ELSE [level |-> TOOL_RULES[Min(hits)],
                  pattern |-> Rule("TOOL_RULES", Min(hits)),
                  reason |-> << "rule reason" >>]

\* Tool calls: the words of a text are given in `action`, or split between
\* `action` and `command`; the other action-like fields hold no string.
ToolNames == {"exec", "write", "edit", "database"}
SplitParams(t) ==
    { [action |-> IF k = 0 THEN NotAString ELSE StringValue(SubSeq(t, 1, k)),
       method |-> NotAString,
       command |-> IF k = Len(t) THEN NotAString
                   ELSE StringValue(SubSeq(t, k + 1, Len(t))),
       operation |-> NotAString] : k \in 0..Len(t) }
ToolParams ==
    {[f \in {"action", "method", "command", "operation"} |-> NotAString]}
       \cup UNION { SplitParams(t) : t \in SeqsUpTo(ToolWords, MaxWords) }
ToolCalls == { [toolName |-> n, params |-> p] : n \in ToolNames, p \in ToolParams }

\* One call of checkToolBlacklist(toolName, params).
CheckToolBlacklist ==
    /\ blPc = "idle"
    /\ blMatch' = checkToolBlacklist(event.toolName, event.params)
    /\ blPc' = "checkTool"
    /\ UNCHANGED << policies, handlers, verifyResult, tamperedAt, blCommand,
                    ruleMatch, lostEntries, logExists, consecutiveApprovals,
                    lastHash, logFile, storageOk, now, hPc, event, risk,
                    effectiveRisk, rvPc, rvArgs, selectedGuardians, llmCalls,
                    votes, rejectCount, result, decision, auditEntry, ncalls,
                    llmReady, mvPc, mvArgs, mvCalls, mvResult >>

InitTool ==
    /\ blCommand = << >>
    /\ blPc = "idle"
    /\ blMatch = NoMatch
    /\ ruleMatch = NoMatch
    /\ policies = DefaultPolicies
    /\ handlers = << >>
    /\ storageOk = TRUE
    /\ logExists = FALSE
    /\ consecutiveApprovals = 0
    /\ lastHash = EmptyHash
    /\ logFile = << >>
    /\ now = 0
    /\ hPc = "idle"
    /\ event \in ToolCalls
    /\ risk = NoRisk
    /\ effectiveRisk = NoRisk
    /\ rvPc = "idle"
    /\ rvArgs = NoArgs
    /\ selectedGuardians = << >>
    /\ llmCalls = << >>
    /\ votes = << >>
    /\ rejectCount = 0
    /\ result = NoResult
    /\ decision = << >>
    /\ auditEntry = << >>
    /\ ncalls = 0
    /\ llmReady = FALSE
    /\ mvPc = "idle"
    /\ mvArgs = NoVoterArgs
    /\ mvCalls = << >>
    /\ mvResult = NoVoteResult
    /\ lostEntries = 0
    /\ verifyResult = NoVerify
    /\ tamperedAt = 0

NextTool == CheckToolBlacklist

SpecTool == InitTool /\ [][NextTool]_vars

\* The action value of a call: the string fields joined, in lower case.
ActionValue(params) ==
    LET joined == JoinFields(params, 1)
    IN [i \in 1..Len(joined) |-> toLowerCase(joined[i])]

\* C25: a call of a tool other than exec, write and edit whose action value
\* holds DROP DATABASE, DROP TABLE, TRUNCATE or DELETE FROM is classified
\* critical, also when the text matches the warning rule for delete/trash.
C25_DatabaseQueryCritical ==
    ( /\ blPc = "checkTool"
      /\ event.toolName \notin {"exec", "write", "edit"}
      /\ ToolRuleMatches(3, ActionValue(event.params)) ) =>
       blMatch.level = "critical"

\* Without the words delete and trash in the text the query is critical.
DatabaseQueryCritical_NoWarningWord ==
    ( /\ blPc = "checkTool"
      /\ event.toolName \notin {"exec", "write", "edit"}
      /\ ToolRuleMatches(3, ActionValue(event.params))
      /\ ~ToolRuleMatches(2, ActionValue(event.params)) ) =>
       blMatch.level = "critical"

(***************************************************************************)
(* The risk score and its tier.                                             *)
(***************************************************************************)
MaxTokens == 2

\* Policy documents as a policy file may supply them: thresholds, the base
\* score and the keyword weights, negative ones included.
Thresholds ==
    { [low |-> 30, high |-> 70], [low |-> 0, high |-> 100], [low |-> 50, high |-> 50],
      [low |-> 0, high |-> 0] }
BaseScores == {-20, 0, 30, 70, 100, 150}
RiskPolicyEntries ==
    { [ tool |-> t, baseScore |-> b,
        keywords |-> << [keyword |-> "rm -rf", delta |-> d1],
                        [keyword |-> "sudo", delta |-> d2] >> ] :
         t \in {"exec", "*"}, b \in BaseScores, d1 \in {-50, -5, 50}, d2 \in {-15, 20} }
RiskPolicies ==
    { [DefaultPolicies EXCEPT !.thresholds = th, !.policies = << e >>] :
         th \in Thresholds, e \in RiskPolicyEntries }
       \cup { [DefaultPolicies EXCEPT !.thresholds = th] : th \in Thresholds }

\* Tool calls whose command runs into keywords, inspection verbs, comment
\* markers and paths of either list.
RiskTokens == {"rm_etc", "rm_tmp", "sudo_apt", "echo", "hash", "word"}
RiskEvents ==
    { [toolName |-> n, params |-> [command |-> c]] :
         n \in {"exec", "read"}, c \in SeqsUpTo(RiskTokens, MaxTokens) }

\* One call of assessRisk(toolName, params, policies).
AssessRisk ==
    /\ risk.tier = "none"
    /\ risk' = assessRisk(event.toolName, event.params, policies)
    /\ UNCHANGED << blPc, policies, handlers, verifyResult, tamperedAt, blCommand,
                    ruleMatch, lostEntries, logExists, consecutiveApprovals,
                    lastHash, logFile, storageOk, now, hPc, event, blMatch,
                    effectiveRisk, rvPc, rvArgs, selectedGuardians, llmCalls,
                    votes, rejectCount, result, decision, auditEntry, ncalls,
                    llmReady, mvPc, mvArgs, mvCalls, mvResult >>

\* One call of assessRisk in the revision without dampening and multiplier.
AssessRisk_Plain ==
    /\ risk.tier = "none"
    /\ risk' = assessRisk_Plain(event.toolName, event.params, policies)
    /\ UNCHANGED << blPc, policies, handlers, verifyResult, tamperedAt, blCommand,
                    ruleMatch, lostEntries, logExists, consecutiveApprovals,
                    lastHash, logFile, storageOk, now, hPc, event, blMatch,
                    effectiveRisk, rvPc, rvArgs, selectedGuardians, llmCalls,
                    votes, rejectCount, result, decision, auditEntry, ncalls,
                    llmReady, mvPc, mvArgs, mvCalls, mvResult >>

InitRisk ==
    /\ blCommand = << >>
    /\ blPc = "idle"
    /\ blMatch = NoMatch
    /\ ruleMatch = NoMatch
    /\ policies \in RiskPolicies
    /\ handlers = << >>
    /\ storageOk = TRUE
    /\ logExists = FALSE
    /\ consecutiveApprovals = 0
    /\ lastHash = EmptyHash
    /\ logFile = << >>
    /\ now = 0
    /\ hPc = "idle"
    /\ event \in RiskEvents
    /\ risk = NoRisk
    /\ effectiveRisk = NoRisk
    /\ rvPc = "idle"
    /\ rvArgs = NoArgs
    /\ selectedGuardians = << >>
    /\ llmCalls = << >>
    /\ votes = << >>
    /\ rejectCount = 0
    /\ result = NoResult
    /\ decision = << >>
    /\ auditEntry = << >>
    /\ ncalls = 0
    /\ llmReady = FALSE
    /\ mvPc = "idle"
    /\ mvArgs = NoVoterArgs
    /\ mvCalls = << >>
    /\ mvResult = NoVoteResult
    /\ lostEntries = 0
    /\ verifyResult = NoVerify
    /\ tamperedAt = 0

NextRisk ==
    \/ AssessRisk
    \/ AssessRisk_Plain

SpecRisk == InitRisk /\ [][NextRisk]_vars

\* C26: the score assessRisk returns lies in 0..100, and its tier is fast
\* exactly when score <= low, light exactly when low < score <= high and full
\* exactly when score > high, whatever the weights, the dampening and the
\* path multiplier did to the sum.
C26_ScoreClampedTierByThresholds ==
    risk.tier # "none" =>
       /\ risk.score \in 0..100
       /\ risk.tier = "fast" <=> risk.score <= policies.thresholds.low
       /\ risk.tier = "light" <=>
             ( /\ policies.thresholds.low < risk.score
               /\ risk.score <= policies.thresholds.high )
       /\ risk.tier = "full" <=> risk.score > policies.thresholds.high

\* `echo rm -rf /etc` under base score 0 and weight -50 for `rm -rf`: the
\* dampened weight is -15, the sum times 1.5 rounds to -22, clamped to 0.
C26_Witness ==
    /\ risk.tier = "fast"
    /\ risk.score = 0
    /\ event.params.command = << "echo", "rm_etc" >>
    /\ policies.policies # << >>
    /\ policies.policies[1].baseScore = 0
    /\ policies.policies[1].keywords[1].delta = -50
    /\ risk.matchedKeywords = << "rm -rf" >>

(***************************************************************************)
(* Termination of the recursion into wrapper payloads.                      *)
(***************************************************************************)
\* Every call checkExecBlacklist makes on the payload of a segment of the
\* command, and every call made from there, is on a payload strictly shorter
\* than the segment it was taken from; fuel counts the calls still allowed.
RECURSIVE ShrinkingCalls(_, _)
ShrinkingCalls(command, fuel) ==
    LET segments == splitCommand(command)
    IN \A k \in 1..Len(segments) :
          LET shellPayload == extractShellWrapperPayload(segments[k])
          IN /\ Len(segments[k]) <= Len(command)
             /\ shellPayload # << >> =>
                   /\ Len(shellPayload) < Len(segments[k])
                   /\ fuel > 0
                   /\ ShrinkingCalls(shellPayload, fuel - 1)

\* The depth of the calls checkExecBlacklist makes on a command.
RECURSIVE CallDepth(_)
CallDepth(command) ==
    LET segments == splitCommand(command)
        inner == { extractShellWrapperPayload(segments[k]) : k \in 1..Len(segments) }
                    \ {<< >>}
    IN IF inner = {} THEN 0
       ELSE 1 + (CHOOSE n \in {CallDepth(q) : q \in inner} :
                    \A m \in {CallDepth(q) : q \in inner} : m <= n)

\* C27: checkExecBlacklist returns on every command, nested wrappers
\* included: each recursive call is on a payload strictly shorter than the
\* segment it was extracted from, so a command of n tokens is left after at
\* most n calls.
C27_RecursionTerminates ==
    blPc = "checkExec" =>
       /\ ShrinkingCalls(blCommand, Len(blCommand))
       /\ CallDepth(blCommand) <= Len(blCommand)
       /\ blMatch.level \in {"none", "warning", "critical"}

\* `bash -c "bash -c 'rm -rf /etc'"`: two calls deep, and the match comes
\* back through both of them.
C27_Witness ==
    /\ blPc = "checkExec"
    /\ blCommand = Nest(<< "rm_etc" >>, 2)
    /\ CallDepth(blCommand) = 2
    /\ blMatch.level = "critical"
    /\ blMatch.reason = << "rule reason", "via shell wrapper", "via shell wrapper" >>

(***************************************************************************)
(* The chain cursor after failed writes.                                    *)
(***************************************************************************)
\* The hash of the last entry the store holds, the empty string for none.
LastPersistedHash == IF logFile = << >> THEN EmptyHash ELSE logFile[Len(logFile)].hash

\* C28: after any sequence of writeAuditEntry calls, failed writes among
\* them, lastHash is the hash of the last entry persisted, and the log as
\* persisted passes verifyAuditChain.
C28_CursorFollowsPersisted ==
    tamperedAt = 0 =>
       /\ lastHash = LastPersistedHash
       /\ (verifyResult # NoVerify /\ logExists) => verifyResult.valid

\* The same while no write has failed.
CursorFollowsPersisted_NoFailure ==
    (tamperedAt = 0 /\ lostEntries = 0) =>
       /\ lastHash = LastPersistedHash
       /\ (verifyResult # NoVerify /\ logExists) => verifyResult.valid

\* A stored entry that links to an entry the store never received.
LinksToLostEntry ==
    ( /\ tamperedAt = 0
      /\ lostEntries > 0
      /\ logFile # << >>
      /\ verifyResult # NoVerify )
       => \/ verifyResult.valid
          \/ \E i \in 1..Len(logFile) :
                /\ verifyResult.brokenAt = i - 1
                /\ logFile[i].hash = computeHash(HashInput(logFile[i]))
                /\ logFile[i].prevHash #
                      (IF i = 1 THEN EmptyHash ELSE logFile[i - 1].hash)

(***************************************************************************)
(* Commands of several segments.                                            *)
(***************************************************************************)
\* The segments that are not whitelisted and have an unsuppressed match of a
\* critical rule.
CriticalSegments(segments) ==
    {k \in 1..Len(segments) :
        /\ ~MatchesSafeExec(segments[k])
        /\ Unsuppressed(segments[k], CRITICAL_EXEC) # {}}

\* C29: a command of several segments one of which is not whitelisted and
\* has an unsuppressed critical match is classified critical, whatever
\* warning an earlier segment or an unwrapped payload gives.
C29_CriticalNotMasked ==
    blPc = "checkExec" =>
       LET segments == splitCommand(blCommand)
       IN (Len(segments) >= 2 /\ CriticalSegments(segments) # {}) =>
             blMatch.level = "critical"

\* The same when no payload gives a warning and no segment before the first
\* critical one has a match.
CriticalNotMasked_NoEarlierWarning ==
    blPc = "checkExec" =>
       LET segments == splitCommand(blCommand)
           crit == CriticalSegments(segments)
       IN ( /\ Len(segments) >= 2
            /\ crit # {}
            /\ \A k \in 1..Len(segments) : UnwrapSegment(segments[k]).level # "warning"
            /\ \A k \in 1..(Min(crit) - 1) : MatchSegment(segments[k]) = NoMatch ) =>
             blMatch.level = "critical"

(***************************************************************************)
(* Several occurrences of a pattern in one segment.                         *)
(***************************************************************************)
\* The rules of a list with an occurrence in the text, wherever it is, that
\* is outside quotes and not behind a comment marker, both as a shell reads
\* the text and by the test of isQuotedOrCommented.
OccurringUnsuppressed(text, rules) ==
    {k \in 1..Len(rules) :
        \E i \in 1..Len(text) :
           /\ rules[k] \in TokenRules(text[i])
           /\ QuoteState(text, i - 1) = "none"
           /\ ~AfterCommentMarker(text, i)
           /\ ~isQuotedOrCommented(text, i)}

\* C30: a segment in which a critical and a warning rule each have an
\* occurrence outside quotes and not behind a comment marker gets a match
\* from matchRules, whichever of the two rule sets it is called with, also
\* when an earlier occurrence is quoted or commented.
C30_LaterOccurrenceMatches ==
    ( /\ blPc = "matchRules"
      /\ splitCommand(blCommand) = << blCommand >>
      /\ OccurringUnsuppressed(blCommand, CRITICAL_EXEC) # {}
      /\ OccurringUnsuppressed(blCommand, WARNING_EXEC) # {} ) =>
       ruleMatch.level # "none"

\* The same when it is the leftmost occurrence that is unsuppressed.
LeftmostOccurrenceMatches ==
    ( /\ blPc = "matchRules"
      /\ Unsuppressed(blCommand, CRITICAL_EXEC) # {}
      /\ Unsuppressed(blCommand, WARNING_EXEC) # {} ) =>
       ruleMatch.level # "none"

====
